---- MODULE Spec2Model ----
(***************************************************************************)
(* Model of the forecasting and next-server prediction engine of           *)
(* rok-server-analytics (src/utils/time_series.py and its collaborators).  *)
(*                                                                         *)
(* Every function of the engine is a pure function of its arguments, so a  *)
(* behaviour is one invocation: Init draws the arguments from bounded      *)
(* sets, and one action per function applies it and stores what it         *)
(* returns in ret.                                                         *)
(*                                                                         *)
(* Time.  OpenTime is a whole number of seconds (data_processor.py:58).    *)
(* The median of an even number of gaps is the mean of the two middle      *)
(* gaps, so it can fall on a half second.  Times are therefore counted in  *)
(* ticks of half a second, which makes every time the predictor computes   *)
(* a whole number of ticks.  Tick 0 is 1970-01-01 00:00:00 (a Thursday) on *)
(* the wall clock of the table.  The float rounding of                     *)
(* pd.Timedelta(hours=...) below one tick is not modelled.                 *)
(*                                                                         *)
(* Zones.  A table is either zone-naive (what process_server_data builds)  *)
(* or zone-aware; an aware table is localized to the configured zone       *)
(* TIME_CONFIG["timezone"] (Asia/Jakarta, no daylight saving), so its wall *)
(* clock and the wall clock of current_time_wib are the same clock.        *)
(***************************************************************************)
EXTENDS Integers, Sequences, FiniteSets, TLC

VARIABLES pc, op, df, num_servers, current_time_wib, ts, periods, fit,
          sequence, max_length, grid, model_type, period, ret,
          session_state, notified, subscribers, last_notification_sent,
          replies

vars == <<pc, op, df, num_servers, current_time_wib, ts, periods, fit,
          sequence, max_length, grid, model_type, period, ret,
          session_state, notified, subscribers, last_notification_sent,
          replies>>

----------------------------------------------------------------------------
(* Bounds of the model *)

MaxRecords == 8
MaxNumServers == 8
MaxPeriods == 3
MaxSeqLen == 10
MaxRepeats == 6
MaxFits == 3
MaxObservations == 6
MaxSessionHours == 6
MaxCommands == 3

----------------------------------------------------------------------------
(* Units and calendar *)

Ticks(seconds) == 2 * seconds
HourTicks == Ticks(3600)
DayTicks == Ticks(86400)

Max(a, b) == IF a >= b THEN a ELSE b
Min(a, b) == IF a <= b THEN a ELSE b

\* Timestamp.hour, .minute, .second, .dayofweek and the calendar day of a
\* wall-clock time (Monday = 0; day 0 is a Thursday)
HourOf(t) == (t % DayTicks) \div HourTicks
MinuteOf(t) == (t % HourTicks) \div Ticks(60)
SecondOf(t) == (t % Ticks(60)) \div Ticks(1)
DayNumber(t) == t \div DayTicks
DayOfWeekOf(t) == (DayNumber(t) + 3) % 7

\* lengths of the months of 1970 and 1971 (neither is a leap year)
DaysInMonth == <<31, 28, 31, 30, 31, 30, 31, 31, 30, 31, 30, 31>>

\* calendar day of the first day of month m (m = 0 is January 1970)
RECURSIVE MonthStart(_)
MonthStart(m) ==
    IF m = 0 THEN 0 ELSE MonthStart(m - 1) + DaysInMonth[((m - 1) % 12) + 1]

\* the month (0 is January 1970) that holds calendar day d of 1970 or 1971
MonthIndex(d) ==
    CHOOSE m \in 0..23 : MonthStart(m) <= d /\ d < MonthStart(m + 1)

\* Timestamp.month (1..12) of a wall-clock time of 1970 or 1971
MonthOf(t) ==
    LET m == CHOOSE m \in 0..23 :
                MonthStart(m) <= DayNumber(t) /\ DayNumber(t) < MonthStart(m + 1)
    IN  (m % 12) + 1

----------------------------------------------------------------------------
(* Sequences *)

\* Stable ascending sort of a sequence of numbers
RECURSIVE InsertNumber(_, _)
InsertNumber(s, x) ==
    IF s = <<>> THEN <<x>>
    ELSE IF s[Len(s)] <= x THEN Append(s, x)
    ELSE Append(InsertNumber(SubSeq(s, 1, Len(s) - 1), x), s[Len(s)])

RECURSIVE SortNumbers(_)
SortNumbers(s) ==
    IF s = <<>> THEN <<>>
    ELSE InsertNumber(SortNumbers(SubSeq(s, 1, Len(s) - 1)), s[Len(s)])

\* DataFrame.tail(k) and list[-k:]
Tail_(s, k) == SubSeq(s, Max(1, Len(s) - k + 1), Len(s))

Range(s) == {s[k] : k \in 1..Len(s)}

----------------------------------------------------------------------------
(* utils/time_series.py: predict_next_servers and _detect_map_pattern *)

RecentWindow == 30
MapWindow == 20
ServersPerDistrict == 4

\* the columns predict_next_servers reads with df[...]
RequiredColumns ==
    {"ServerId", "OpenDateTime", "Hour", "DayOfWeek", "DistrictId", "MapType"}

PredictionColumns ==
    <<"ServerId", "Tanggal", "Jam", "DistrictId", "MapType", "Estimasi">>

\* df.sort_values('OpenDateTime'): rows in ascending open time
RECURSIVE InsertRow(_, _)
InsertRow(s, r) ==
    IF s = <<>> THEN <<r>>
    ELSE IF s[Len(s)].OpenDateTime <= r.OpenDateTime THEN Append(s, r)
    ELSE Append(InsertRow(SubSeq(s, 1, Len(s) - 1), r), s[Len(s)])

RECURSIVE SortByOpenDateTime(_)
SortByOpenDateTime(rows) ==
    IF rows = <<>> THEN <<>>
    ELSE InsertRow(SortByOpenDateTime(SubSeq(rows, 1, Len(rows) - 1)),
                   rows[Len(rows)])

\* recent_servers: the 30 most recent rows by open time
RecentServers(rows) == Tail_(SortByOpenDateTime(rows), RecentWindow)

\* recent_servers['OpenDateTime'].diff().dropna(): gaps of consecutive rows
TimeDeltas(recent) ==
    [k \in 1..(Len(recent) - 1) |->
        recent[k + 1].OpenDateTime - recent[k].OpenDateTime]

RECURSIVE Sum(_)
Sum(s) == IF s = <<>> THEN 0 ELSE s[Len(s)] + Sum(SubSeq(s, 1, Len(s) - 1))

\* variant: the mean of the gaps (cut to a whole tick) instead of the median
Median_Mean(s) == Sum(s) \div Len(s)

\* Series.median() of a non-empty sequence of whole-second gaps, in ticks
Median(s) ==
    LET g == SortNumbers(s)
        n == Len(g)
    IN  IF n % 2 = 1 THEN g[(n + 1) \div 2]
        ELSE (g[n \div 2] + g[n \div 2 + 1]) \div 2

\* recent_servers[name]: one column of the recency window
Column(recent, name) == [k \in 1..Len(recent) |-> recent[k][name]]

\* value_counts() of a column: Counts(col)[k] is the count of the value col[k]
Counts(col) ==
    [k \in 1..Len(col) |-> Cardinality({j \in 1..Len(col) : col[j] = col[k]})]
\* value_counts().max()
MaxCount(col) ==
    LET counts == Range(Counts(col))
    IN  CHOOSE c \in counts : \A d \in counts : d <= c
\* value_counts().idxmax(): a value with the highest count, the first one
\* met in the window among equals
IdxMax(col) ==
    LET counts == Counts(col)
        m == MaxCount(col)
        first == CHOOSE k \in 1..Len(col) :
                    /\ counts[k] = m
                    /\ \A j \in 1..(k - 1) : counts[j] < m
    IN  col[first]
\* counts.max() / counts.sum() > 0.5
Consistent(col) == 2 * MaxCount(col) > Len(col)

\* df['ServerId'].max() and the first row of df that carries it
last_server_id(rows) ==
    LET ids == {rows[k].ServerId : k \in 1..Len(rows)}
    IN  CHOOSE x \in ids : \A y \in ids : y <= x
\* variant: the record opened last
last_server_Latest(rows) == SortByOpenDateTime(rows)[Len(rows)]

last_server(rows) ==
    LET id == last_server_id(rows)
        first == CHOOSE k \in 1..Len(rows) :
                    /\ rows[k].ServerId = id
                    /\ \A j \in 1..(k - 1) : rows[j].ServerId # id
    IN  rows[first]

\* _detect_map_pattern: default_pattern
default_pattern ==
    <<"Sever_Map_G1_1_v2", "Sever_Map_G1_2_v2", "Sever_Map_G1_3_v2",
      "Sever_Map_G1_4_v2">>

\* variant: the scan running over the final window too
PatternMatches_Inclusive(map_types, L) ==
    Cardinality({i \in 0..(Len(map_types) - L) :
                    SubSeq(map_types, i + 1, i + L) = Tail_(map_types, L)})

\* matches: windows map_types[i:i+L], i in range(len - L), equal to the
\* last L tokens (0-based i, so the final window itself is not counted)
PatternMatches(map_types, L) ==
    Cardinality({i \in 0..(Len(map_types) - L - 1) :
                    SubSeq(map_types, i + 1, i + L) = Tail_(map_types, L)})

\* variant: without the default for a history shorter than 4
detect_map_pattern_NoDefault(map_types) ==
    IF PatternMatches(map_types, 2) >= 2 THEN Tail_(map_types, 2)
    ELSE IF PatternMatches(map_types, 3) >= 2 THEN Tail_(map_types, 3)
    ELSE IF PatternMatches(map_types, 4) >= 2 THEN Tail_(map_types, 4)
    ELSE Tail_(map_types, 4)

detect_map_pattern(map_types) ==
    IF Len(map_types) < 4 THEN default_pattern
    ELSE IF PatternMatches(map_types, 2) >= 2 THEN Tail_(map_types, 2)
    ELSE IF PatternMatches(map_types, 3) >= 2 THEN Tail_(map_types, 3)
    ELSE IF PatternMatches(map_types, 4) >= 2 THEN Tail_(map_types, 4)
    ELSE Tail_(map_types, 4)

\* map_type_pattern: MapType of the 20 most recent rows by open time
MapTypePattern(rows) ==
    LET w == Tail_(SortByOpenDateTime(rows), MapWindow)
    IN  [k \in 1..Len(w) |-> w[k].MapType]

\* variant: the loop counting from 0, range(num_servers)
NextServerId_FromZero(last_id, i) == last_id + i - 1

\* next_server_id of the i-th slot (loop over range(1, num_servers + 1))
NextServerId(last_id, i) == last_id + i

\* last_open_date + pd.Timedelta(hours=avg_hours_between_servers * i)
BaseOpenDateTime(last_open_date, avg, i) == last_open_date + avg * i

\* Timestamp.replace(hour=h, minute=0, second=0): the sub-second part stays
ReplaceHour(t, h) == t - (t % DayTicks) + h * HourTicks + (t % Ticks(1))

\* days_to_add = (most_common_day - dayofweek) % 7 (Python %: 0..6)
DaysToAdd(day, t) == (day - DayOfWeekOf(t)) % 7

\* variant: the weekday adjustment outside the hour-consistency branch
AdjustOpenDateTime_Unnested(t, hourOk, hour, dayOk, day) ==
    LET snapped == IF hourOk THEN ReplaceHour(t, hour) ELSE t
    IN  IF dayOk /\ DaysToAdd(day, snapped) > 0
        THEN snapped + DaysToAdd(day, snapped) * DayTicks
        ELSE snapped

\* the adjustment of lines 184-190
AdjustOpenDateTime(t, hourOk, hour, dayOk, day) ==
    IF hourOk
    THEN LET snapped == ReplaceHour(t, hour)
         IN  IF dayOk /\ DaysToAdd(day, snapped) > 0
             THEN snapped + DaysToAdd(day, snapped) * DayTicks
             ELSE snapped
    ELSE t

\* variant: the increment without the - 1
DistrictIncrement_NoMinusOne(next_id, last_id) ==
    (next_id - last_id) \div ServersPerDistrict

\* district_increment = (next_server_id - last_server_id - 1) // 4
DistrictIncrement(next_id, last_id) ==
    (next_id - last_id - 1) \div ServersPerDistrict

\* map_index = (next_server_id - 1) % len(map_types), 0-based
MapIndex(next_id, map_types) == (next_id - 1) % Len(map_types)

\* Estimasi.  Timedelta.days and .seconds are the floor quotient and the
\* remainder of the difference by one day.
Due == [kind |-> "Seharusnya sudah dibuka", days |-> 0, hours |-> 0]
\* variant: the estimate without the test for a time already past
Estimate_Unchecked(next_open, now) ==
    [kind |-> "hari jam lagi",
     days |-> (next_open - now) \div DayTicks,
     hours |-> ((next_open - now) % DayTicks) \div HourTicks]
Estimate(next_open, now) ==
    LET time_until_opening == next_open - now
        days_until == time_until_opening \div DayTicks
        hours_until == (time_until_opening % DayTicks) \div HourTicks
    IN  IF time_until_opening < 0 THEN Due
        ELSE [kind |-> "hari jam lagi", days |-> days_until,
              hours |-> hours_until]

\* strftime('%Y-%m-%d') names the calendar day, strftime('%H:%M:%S') the
\* wall-clock time cut to whole seconds
Tanggal(t) == DayNumber(t)
Jam(t) == <<HourOf(t), MinuteOf(t), SecondOf(t)>>

\* what lines 140-162 compute before the loop
Statistics(rows) ==
    LET recent_servers == RecentServers(rows)
    IN  [avg_hours_between_servers |-> Median(TimeDeltas(recent_servers)),
         hour_consistent  |-> Consistent(Column(recent_servers, "Hour")),
         most_common_hour |-> IdxMax(Column(recent_servers, "Hour")),
         day_consistent   |-> Consistent(Column(recent_servers, "DayOfWeek")),
         most_common_day  |-> IdxMax(Column(recent_servers, "DayOfWeek")),
         last_server_id   |-> last_server_id(rows),
         last_server      |-> last_server(rows)]

\* next_open_datetime of the i-th slot
NextOpenDateTime(st, i) ==
    AdjustOpenDateTime(
        BaseOpenDateTime(st.last_server.OpenDateTime,
                         st.avg_hours_between_servers, i),
        st.hour_consistent, st.most_common_hour,
        st.day_consistent, st.most_common_day)

\* variant: the open time projected from the clock, not from the last record
NextServerRow_FromNow(st, map_types, now, i) ==
    LET next_server_id == NextServerId(st.last_server_id, i)
        next_open_datetime ==
            AdjustOpenDateTime(
                BaseOpenDateTime(now, st.avg_hours_between_servers, i),
                st.hour_consistent, st.most_common_hour,
                st.day_consistent, st.most_common_day)
    IN  [ServerId   |-> next_server_id,
         Tanggal    |-> Tanggal(next_open_datetime),
         Jam        |-> Jam(next_open_datetime),
         DistrictId |-> st.last_server.DistrictId
                          + DistrictIncrement(next_server_id, st.last_server_id),
         MapType    |-> map_types[MapIndex(next_server_id, map_types) + 1],
         Estimasi   |-> Estimate(next_open_datetime, now)]

\* the dict appended to next_servers for the i-th slot
NextServerRow(st, map_types, now, i) ==
    LET next_server_id == NextServerId(st.last_server_id, i)
        next_open_datetime == NextOpenDateTime(st, i)
    IN  [ServerId   |-> next_server_id,
         Tanggal    |-> Tanggal(next_open_datetime),
         Jam        |-> Jam(next_open_datetime),
         DistrictId |-> st.last_server.DistrictId
                          + DistrictIncrement(next_server_id, st.last_server_id),
         MapType    |-> map_types[MapIndex(next_server_id, map_types) + 1],
         Estimasi   |-> Estimate(next_open_datetime, now)]

\* variant: an except branch returning a frame without columns
EmptyPredictions_NoColumns ==
    [raised |-> FALSE, columns |-> <<>>, rows |-> <<>>]

\* the frame of the except branch (line 233)
EmptyPredictions ==
    [raised |-> FALSE, columns |-> PredictionColumns, rows |-> <<>>]

\* what makes a statement of the try block raise:
\*   a df[...] on a missing column (KeyError);
\*   idxmax of the empty value_counts of an empty table (ValueError);
\*   pd.Timedelta(hours=NaN), the median of the gaps of a window of one
\*   row, which has no gap (ValueError);
\*   a zone-naive open time minus the zone-aware current_time_wib (TypeError);
\*   next_servers_df['ServerId'] on the column-less frame built from no
\*   prediction at all (KeyError).
PredictRaises(d, n) ==
    \/ ~(RequiredColumns \subseteq d.columns)
    \/ Len(d.rows) = 0
    \/ n < 1
    \/ Len(d.rows) < 2
    \/ d.tz = "naive"

predict_next_servers(d, n, now) ==
    IF PredictRaises(d, n) THEN EmptyPredictions
    ELSE LET st == Statistics(d.rows)
             map_types == detect_map_pattern(MapTypePattern(d.rows))
         IN  [raised  |-> FALSE,
              columns |-> PredictionColumns,
              rows    |-> [i \in 1..n |-> NextServerRow(st, map_types, now, i)]]

----------------------------------------------------------------------------
(* components/map_analysis.py: detect_pattern_length *)

DefaultMaxLength == 8

\* matches: the windows sequence[i:i+length], i in
\* range(length, len - length + 1, length), equal to sequence[:length]
WindowMatches(seq, length) ==
    Cardinality({j \in 1..((Len(seq) - length) \div length) :
                    SubSeq(seq, j * length + 1, j * length + length)
                        = SubSeq(seq, 1, length)})

\* expected_matches = (len(sequence) - length) // length
ExpectedMatches(seq, length) == (Len(seq) - length) \div length

\* variant: without the demand for more than one match
PatternAccepted_NoMinimum(seq, length) ==
    10 * WindowMatches(seq, length) >= 7 * ExpectedMatches(seq, length)

\* matches >= 0.7 * expected_matches and matches > 1
PatternAccepted(seq, length) ==
    /\ 10 * WindowMatches(seq, length) >= 7 * ExpectedMatches(seq, length)
    /\ WindowMatches(seq, length) > 1

\* variant: the loop running from the longest length down
RECURSIVE FirstAccepted_Longest(_, _, _)
FirstAccepted_Longest(seq, length, last) ==
    IF length > last THEN 0
    ELSE IF PatternAccepted(seq, last) THEN last
    ELSE FirstAccepted_Longest(seq, length, last - 1)

\* the loop over range(length, last + 1): the first accepted length, else 0
RECURSIVE FirstAccepted(_, _, _)
FirstAccepted(seq, length, last) ==
    IF length > last THEN 0
    ELSE IF PatternAccepted(seq, length) THEN length
    ELSE FirstAccepted(seq, length + 1, last)

detect_pattern_length(seq, maxlen) ==
    IF Len(seq) < 4 THEN 0
    ELSE FirstAccepted(seq, 1, Min(maxlen, Len(seq) \div 2))

----------------------------------------------------------------------------
(* utils/time_series.py: forecast_with_arima and forecast_with_sarima *)

(* A count series is its DatetimeIndex, a sequence of calendar days        *)
(* (DayNumber), with its cadence: "D" for the daily series and "MS" for    *)
(* the month-start series of prepare_time_series_data.  The statsmodels    *)
(* fit is outside the repository: fit.ok is FALSE when ARIMA/SARIMAX,      *)
(* fit() or forecast() raised, and otherwise fit.raw holds the values      *)
(* forecast(steps=periods) returned, one per step.                         *)

\* pd.date_range(start=start, periods=periods): freq defaults to 'D'
DateRange(start, n) == [k \in 1..n |-> start + (k - 1)]

\* variant: a range that ends one step early
ForecastDates_Short(index, n) == DateRange(index[Len(index)] + 1, n - 1)

\* forecast_dates = pd.date_range(start=last_date + pd.Timedelta(days=1),
\*                                periods=periods)
ForecastDates(index, n) == DateRange(index[Len(index)] + 1, n)

\* variant: no clamping
ClampNonNegative_Identity(v) == v

\* np.maximum(forecast_values, 0), one element
ClampNonNegative(v) == IF v >= 0 THEN v ELSE 0

Clamp(raw) == [k \in 1..Len(raw) |-> ClampNonNegative(raw[k])]

None == [some |-> FALSE, val |-> <<>>]
Some(v) == [some |-> TRUE, val |-> v]

\* variant: an except branch that returns values without dates or model
NoForecast_Partial ==
    [raised |-> FALSE, forecast_values |-> Some(<<0>>),
     forecast_dates |-> None, model_fit |-> None]

\* the except branch: return None, None, None
NoForecast ==
    [raised |-> FALSE, forecast_values |-> None, forecast_dates |-> None,
     model_fit |-> None]

\* the body shared by both forecasters; they differ in the model they fit
Forecast(series, n, f) ==
    IF ~f.ok \/ Len(series.index) = 0 THEN NoForecast
    ELSE [raised          |-> FALSE,
          forecast_values |-> Some(Clamp(f.raw)),
          forecast_dates  |-> Some(ForecastDates(series.index, n)),
          model_fit       |-> Some(<<"fit">>)]

forecast_with_arima(series, n, f) == Forecast(series, n, f)
forecast_with_sarima(series, n, f) == Forecast(series, n, f)

----------------------------------------------------------------------------
(* Arguments *)

\* Monday 1970-01-05 20:00:00
StartTime == 4 * DayTicks + 20 * HourTicks

Alphabet == <<"A", "B", "C", "D">>

\* gap between consecutive openings in hours, and the extra seconds of
\* every other gap (none, one second, one week)
GapHours == {7, 36, 48, 167, 168}
JitterSeconds == {0, 1, 604800}
CycleLengths == 1..4
FirstIds == {1, 102}
\* table sizes: every size up to MaxRecords, and two sizes beyond both
\* windows (30 and 20 rows)
LongSizes == {31, 40}
TableSizes == (0..MaxRecords) \cup LongSizes

\* what _process_time_data derives from OpenTime
Row(id, t, map, district) ==
    [ServerId |-> id, OpenDateTime |-> t, MapType |-> map,
     DistrictId |-> district, Hour |-> HourOf(t), DayOfWeek |-> DayOfWeekOf(t),
     Month |-> MonthOf(t), OpenDate |-> DayNumber(t)]

\* n servers opened gap hours apart (every other gap jitter seconds longer),
\* map types cycling through the first cyc letters, one district per four
\* servers, ids counting up from firstId
Rows(n, gap, jitter, cyc, firstId) ==
    [k \in 1..n |->
        Row(firstId + k - 1,
            StartTime + (k - 1) * gap * HourTicks + (k \div 2) * Ticks(jitter),
            Alphabet[((k - 1) % cyc) + 1],
            1 + (k - 1) \div ServersPerDistrict)]

Reversed(s) == [k \in 1..Len(s) |-> s[Len(s) + 1 - k]]

\* the columns of a processed table that the engine reads
TableColumns == RequiredColumns \cup {"Month", "OpenDate"}

Table(rows, tz) == [columns |-> TableColumns, tz |-> tz, rows |-> rows]

\* 30 servers opened gap hours apart, but for the gap after row pos, which is
\* extra hours longer
OutlierRows(gap, pos, extra) ==
    [k \in 1..RecentWindow |->
        Row(k,
            StartTime + (k - 1) * gap * HourTicks
                + (IF k > pos THEN extra * HourTicks ELSE 0),
            Alphabet[((k - 1) % 4) + 1],
            1 + (k - 1) \div ServersPerDistrict)]

OutlierTables ==
    {Table(OutlierRows(g, pos, extra), "aware") :
        g \in {7, 48}, pos \in {1, 15, 29}, extra \in {1000, 5000}}

AwareTables ==
    {Table(Rows(n, g, j, c, 1), "aware") :
        n \in TableSizes, g \in GapHours, j \in JitterSeconds,
        c \in CycleLengths}
    \cup
    {Table(Rows(n, g, 0, c, f), "aware") :
        n \in TableSizes, g \in GapHours, c \in CycleLengths, f \in FirstIds}
    \cup
    {Table(Reversed(Rows(n, g, 0, c, 1)), "aware") :
        n \in TableSizes, g \in GapHours, c \in CycleLengths}

NaiveTables ==
    {Table(Rows(n, g, 0, c, 1), "naive") :
        n \in TableSizes, g \in {48, 168}, c \in {1, 4}}

\* a table that lacks one of the columns
MalformedTables ==
    {[columns |-> RequiredColumns \ {c}, tz |-> "aware",
      rows |-> Rows(5, 48, 0, 4, 1)] : c \in RequiredColumns}

\* tables whose highest id belongs to the record opened first: the ids of
\* the first and the last row change places
SwapIds(rows) ==
    [k \in 1..Len(rows) |->
        IF k = 1 THEN [rows[k] EXCEPT !.ServerId = rows[Len(rows)].ServerId]
        ELSE IF k = Len(rows) THEN [rows[k] EXCEPT !.ServerId = rows[1].ServerId]
        ELSE rows[k]]
SwappedTables ==
    {Table(SwapIds(Rows(n, g, 0, 4, 1)), "aware") :
        n \in {2, 5, MaxRecords}, g \in GapHours}

\* servers opened a number of minutes apart: within the same hour of one
\* day (10 minutes), or twice a day (720 minutes)
GapMinutes == {10, 720}
DenseRows(n, minutes) ==
    [k \in 1..n |->
        Row(k, StartTime + (k - 1) * minutes * Ticks(60),
            Alphabet[((k - 1) % 4) + 1],
            1 + (k - 1) \div ServersPerDistrict)]
DenseTables ==
    {Table(DenseRows(n, m), "aware") : n \in {3, 5}, m \in GapMinutes}

Tables ==
    AwareTables \cup NaiveTables \cup MalformedTables \cup OutlierTables
        \cup SwappedTables \cup DenseTables

\* the instant of the call on the wall clock of the configured zone
Nows ==
    {0,
     StartTime + 100 * HourTicks + Ticks(1801),
     StartTime + 2500 * HourTicks + 1}

NoTable == [columns |-> {}, tz |-> "naive", rows |-> <<>>]
NoSeries == [freq |-> "D", index |-> <<>>]
NoFit == [ok |-> FALSE, raw |-> <<>>]
NoReturn == [raised |-> FALSE]
NoGrid == <<>>

\* the arguments a call does not take
NoTableArgs == df = NoTable /\ num_servers = 0 /\ current_time_wib = 0
NoSeriesArgs == ts = NoSeries /\ periods = 0 /\ fit = NoFit
NoSequenceArgs == sequence = <<>> /\ max_length = 0
NoGridArgs == grid = NoGrid /\ model_type = ""
NoPeriodArg == period = 0

\* st.session_state of a new session (app.py lines 53-57); the key of the
\* rate limiter is absent until its first use and read with default 0
NewSession ==
    [last_notification_check |-> 0,
     last_notification_check_time |-> 0,
     last_notified_server_id |-> 0]

\* a NotificationManager that has loaded no subscriber and has limited
\* nobody yet
NoSubscribers == <<>>
NoRateKeys == [u \in {} |-> 0]

\* no notification was sent, no command was answered
NoSession ==
    /\ session_state = NewSession
    /\ notified = <<>>
    /\ subscribers = NoSubscribers
    /\ last_notification_sent = NoRateKeys
    /\ replies = <<>>

\* count series: first day (or month), length and cadence
Series ==
    {[freq |-> "D", index |-> [k \in 1..n |-> d0 + k - 1]] :
        d0 \in {0, 58, 364}, n \in 1..3}
    \cup
    {[freq |-> "MS", index |-> [k \in 1..n |-> MonthStart(m0 + k - 1)]] :
        m0 \in {0, 1, 10}, n \in 1..3}

RawValues == {-2, 0, 3}
Fits(n) ==
    {[ok |-> FALSE, raw |-> <<>>]}
    \cup {[ok |-> TRUE, raw |-> r] : r \in [1..n -> RawValues]}

----------------------------------------------------------------------------
(* utils/time_series.py: find_optimal_arima_params *)

\* the orders in the iteration order of the three nested loops
GridOrders ==
    [n \in 1..18 |-> <<(n - 1) \div 6, ((n - 1) \div 3) % 2, (n - 1) % 3>>]

\* float("inf"): above every AIC of a fit
Infinity == 1000

\* if p + d + q > 4: continue
TooComplex(order) == order[1] + order[2] + order[3] > 4

DefaultOrder == <<1, 1, 0>>

\* variant: model_fit.aic <= best_aic
Improves_OrEqual(aic, best_aic) == aic <= best_aic

\* model_fit.aic < best_aic
Improves(aic, best_aic) == aic < best_aic

\* variant: the search stopping at the first fit that raises
RECURSIVE GridSearch_StopOnFailure(_, _, _)
GridSearch_StopOnFailure(g, n, st) ==
    IF n > Len(GridOrders) THEN st
    ELSE LET order == GridOrders[n]
             tried == [st EXCEPT !.attempted = Append(@, order)]
         IN  IF TooComplex(order) THEN GridSearch_StopOnFailure(g, n + 1, st)
             ELSE IF order \notin DOMAIN g THEN tried
             ELSE IF Improves(g[order], st.best_aic)
                  THEN GridSearch_StopOnFailure(g, n + 1,
                          [tried EXCEPT !.best_aic = g[order],
                                        !.best_params = order])
                  ELSE GridSearch_StopOnFailure(g, n + 1, tried)

\* the three nested loops from their n-th iteration on; g gives the AIC of
\* the orders whose fit succeeds, the fit of every other order raises, and
\* attempted records the orders ARIMA was called with
RECURSIVE GridSearch(_, _, _)
GridSearch(g, n, st) ==
    IF n > Len(GridOrders) THEN st
    ELSE LET order == GridOrders[n]
             tried == [st EXCEPT !.attempted = Append(@, order)]
         IN  IF TooComplex(order) THEN GridSearch(g, n + 1, st)
             ELSE IF order \notin DOMAIN g THEN GridSearch(g, n + 1, tried)
             ELSE IF Improves(g[order], st.best_aic)
                  THEN GridSearch(g, n + 1,
                          [tried EXCEPT !.best_aic = g[order],
                                        !.best_params = order])
                  ELSE GridSearch(g, n + 1, tried)

find_optimal_arima_params(g) ==
    LET st == GridSearch(g, 1, [best_aic |-> Infinity, best_params |-> <<>>,
                                attempted |-> <<>>])
    IN  [order |-> IF st.best_params = <<>> THEN DefaultOrder
                   ELSE st.best_params,
         attempted |-> st.attempted]

\* the fits of a series: at most MaxFits orders of the grid fit, each with
\* an AIC
AICs == {-1, 2}
Grids ==
    UNION {[S -> AICs] : S \in {T \in SUBSET Range(GridOrders) :
                                    Cardinality(T) <= MaxFits}}

----------------------------------------------------------------------------
(* utils/time_series.py: analyze_time_patterns *)

weekday_names ==
    <<"Senin", "Selasa", "Rabu", "Kamis", "Jumat", "Sabtu", "Minggu">>

AnalysisColumns == {"DayOfWeek", "Hour", "OpenDateTime", "Month"}

\* the labels of a set of numbers in ascending order
RECURSIVE SortIndex(_)
SortIndex(labels) ==
    IF labels = {} THEN <<>>
    ELSE LET least == CHOOSE x \in labels : \A y \in labels : x <= y
         IN  <<least>> \o SortIndex(labels \ {least})

\* col.value_counts().sort_index(), and groupby(col).size(): one entry per
\* value that occurs, in ascending order of the value
ValueCounts(col) ==
    LET labels == SortIndex(Range(col))
    IN  [k \in 1..Len(labels) |->
            [label |-> labels[k],
             count |-> Cardinality({j \in 1..Len(col) : col[j] = labels[k]})]]

\* counts.max()
CountsMax(vc) ==
    CHOOSE c \in {vc[k].count : k \in 1..Len(vc)} :
        \A k \in 1..Len(vc) : vc[k].count <= c

\* counts.idxmax(): the label of the first entry with the highest count
CountsIdxMax(vc) ==
    vc[CHOOSE k \in 1..Len(vc) :
            /\ vc[k].count = CountsMax(vc)
            /\ \A j \in 1..(k - 1) : vc[j].count < CountsMax(vc)].label

\* counts.sum()
CountsSum(vc) == Sum([k \in 1..Len(vc) |-> vc[k].count])

\* variant: the count of the first bucket over the total
ConsistencyRatio_First(vc) == [num |-> vc[1].count, den |-> CountsSum(vc)]

\* counts.max() / counts.sum(), as a fraction
ConsistencyRatio(vc) == [num |-> CountsMax(vc), den |-> CountsSum(vc)]

\* counts.to_dict()
ToDict(vc) ==
    [label \in {vc[k].label : k \in 1..Len(vc)} |->
        vc[CHOOSE k \in 1..Len(vc) : vc[k].label = label].count]

\* {weekday_names[i]: count for i, count in enumerate(weekday_counts)}
WeekdayCountsDict(vc) ==
    [name \in {weekday_names[k] : k \in 1..Len(vc)} |->
        vc[CHOOSE k \in 1..Len(vc) : weekday_names[k] = name].count]

\* a ratio of 0
Zero == [num |-> 0, den |-> 1]

\* variant: a default without the month fields
DefaultPatterns_NoMonths ==
    [weekday_counts |-> [name \in Range(weekday_names) |-> 0],
     most_common_day |-> "Senin",
     weekday_consistency |-> Zero,
     hour_counts |-> [h \in {0} |-> 0],
     most_common_hour |-> 12,
     hour_consistency |-> Zero,
     avg_hours_between_servers |-> Some([num |-> 24 * HourTicks, den |-> 1]),
     median_hours_between_servers |-> Some(24 * HourTicks)]

\* the except branch: the default patterns
DefaultPatterns ==
    [weekday_counts |-> [name \in Range(weekday_names) |-> 0],
     most_common_day |-> "Senin",
     weekday_consistency |-> Zero,
     hour_counts |-> [h \in {0} |-> 0],
     most_common_hour |-> 12,
     hour_consistency |-> Zero,
     avg_hours_between_servers |-> Some([num |-> 24 * HourTicks, den |-> 1]),
     median_hours_between_servers |-> Some(24 * HourTicks),
     month_counts |-> [m \in 1..12 |-> 0],
     most_common_month |-> 1,
     monthly_consistency |-> Zero]

\* a column is missing (KeyError), or the table is empty and idxmax raises
AnalyzeRaises(d) ==
    \/ ~(AnalysisColumns \subseteq d.columns)
    \/ Len(d.rows) = 0

\* the mean and the median of the gaps are NaN for a single record; the
\* gaps are kept in ticks
analyze_time_patterns(d) ==
    IF AnalyzeRaises(d) THEN DefaultPatterns
    ELSE LET weekday_counts == ValueCounts(Column(d.rows, "DayOfWeek"))
             hour_counts == ValueCounts(Column(d.rows, "Hour"))
             time_diffs == TimeDeltas(SortByOpenDateTime(d.rows))
             month_counts == ValueCounts(Column(d.rows, "Month"))
         IN  [weekday_counts |-> WeekdayCountsDict(weekday_counts),
              most_common_day |-> weekday_names[CountsIdxMax(weekday_counts) + 1],
              weekday_consistency |-> ConsistencyRatio(weekday_counts),
              hour_counts |-> ToDict(hour_counts),
              most_common_hour |-> CountsIdxMax(hour_counts),
              hour_consistency |-> ConsistencyRatio(hour_counts),
              avg_hours_between_servers |->
                  IF time_diffs = <<>> THEN None
                  ELSE Some([num |-> Sum(time_diffs), den |-> Len(time_diffs)]),
              median_hours_between_servers |->
                  IF time_diffs = <<>> THEN None
                  ELSE Some(Median(time_diffs)),
              month_counts |-> ToDict(month_counts),
              most_common_month |-> CountsIdxMax(month_counts),
              monthly_consistency |-> ConsistencyRatio(month_counts)]

----------------------------------------------------------------------------
(* utils/time_series.py: perform_seasonal_decomposition *)

(* The observations of a series are whole counts or NaN.  The numbers the   *)
(* decomposition computes are fractions; they are kept as whole multiples   *)
(* of 1/Unit(period), a unit fine enough for every division below to be     *)
(* exact for the series drawn.                                              *)
NaN == -999999
Unit(p) == 48 * p * p

\* the positions before k (after k) that hold a number
Before(v, k) == {i \in 1..(k - 1) : v[i] # NaN}
After(v, k) == {j \in (k + 1)..Len(v) : v[j] # NaN}

\* ts.interpolate(method='linear'): a NaN between two numbers lies on the
\* line through its nearest neighbours, a NaN after the last number repeats
\* it, a NaN before the first number stays
interpolate(v, p) ==
    [k \in 1..Len(v) |->
        IF v[k] # NaN THEN v[k] * Unit(p)
        ELSE IF Before(v, k) = {} THEN NaN
        ELSE LET i == CHOOSE i \in Before(v, k) : \A o \in Before(v, k) : o <= i
             IN  IF After(v, k) = {} THEN v[i] * Unit(p)
                 ELSE LET j == CHOOSE j \in After(v, k) :
                                  \A o \in After(v, k) : j <= o
                      IN  ((v[i] * (j - k) + v[j] * (k - i)) * Unit(p))
                              \div (j - i)]

\* seasonal_decompose raises: missing values, or fewer than two cycles
DecomposeRaises(x, p) ==
    \/ \E k \in 1..Len(x) : x[k] = NaN
    \/ Len(x) < 2 * p

\* the centred moving average of width p (for an even p the two end points
\* of the window of p + 1 count half); NaN where the window leaves the series
Trend(x, p) ==
    LET h == p \div 2
    IN  [k \in 1..Len(x) |->
            IF k - h < 1 \/ k + h > Len(x) THEN NaN
            ELSE IF p % 2 = 1
                 THEN Sum(SubSeq(x, k - h, k + h)) \div p
                 ELSE (x[k - h] + 2 * Sum(SubSeq(x, k - h + 1, k + h - 1))
                          + x[k + h]) \div (2 * p)]

Detrended(x, trend) ==
    [k \in 1..Len(x) |-> IF trend[k] = NaN THEN NaN ELSE x[k] - trend[k]]

\* the mean of the detrended values of each phase of the cycle, NaN left out
PeriodAverages(detrended, p) ==
    [i \in 1..p |->
        LET at == {k \in 1..Len(detrended) :
                      (k - 1) % p = i - 1 /\ detrended[k] # NaN}
            RECURSIVE Total(_)
            Total(S) == IF S = {} THEN 0
                        ELSE LET k == CHOOSE k \in S : TRUE
                             IN  detrended[k] + Total(S \ {k})
        IN  Total(at) \div Cardinality(at)]

\* the phase means less their own mean, repeated along the series
Seasonal(detrended, p) ==
    LET averages == PeriodAverages(detrended, p)
        mean == Sum(averages) \div p
    IN  [k \in 1..Len(detrended) |-> averages[((k - 1) % p) + 1] - mean]

\* variant: the residual of the multiplicative model
Residual_Multiplicative(x, trend, seasonal, p) ==
    [k \in 1..Len(x) |->
        IF trend[k] = NaN \/ trend[k] = 0 \/ seasonal[k] = 0 THEN NaN
        ELSE (x[k] * Unit(p) * Unit(p)) \div (trend[k] * seasonal[k])]

\* model='additive': what trend and seasonal leave of the observation
Residual(x, trend, seasonal, p) ==
    [k \in 1..Len(x) |->
        IF trend[k] = NaN THEN NaN ELSE x[k] - trend[k] - seasonal[k]]

\* seasonal_decompose(ts_filled, model='additive', period=period) and the
\* dict of its four components
seasonal_decompose(x, p) ==
    LET trend == Trend(x, p)
        seasonal == Seasonal(Detrended(x, trend), p)
    IN  [trend |-> trend,
         seasonal |-> seasonal,
         resid |-> Residual(x, trend, seasonal, p),
         observed |-> x]

\* the try block, and the except branch that returns None; f.ok is FALSE
\* when the library raises for a reason of its own
perform_seasonal_decomposition(series, p, f) ==
    LET ts_filled == interpolate(series.values, p)
    IN  IF ~f.ok \/ DecomposeRaises(ts_filled, p) THEN None
        ELSE Some(seasonal_decompose(ts_filled, p))

\* series of counts with at most one missing observation
Observations == {0, 1, 3}
SeriesOf(v) ==
    [freq |-> "D", index |-> [k \in 1..Len(v) |-> k - 1], values |-> v]
WholeSeries(n) == {SeriesOf(v) : v \in [1..n -> Observations]}
GapSeries(n) ==
    {SeriesOf([v EXCEPT ![at] = NaN]) :
        v \in [1..n -> Observations], at \in 1..n}
ObservedSeries ==
    UNION {WholeSeries(n) \cup GapSeries(n) : n \in 0..MaxObservations}
DecompositionPeriods == {2, 3}
LibraryOutcomes == {[ok |-> TRUE, raw |-> <<>>], [ok |-> FALSE, raw |-> <<>>]}

----------------------------------------------------------------------------
(* utils/data_processor.py: prepare_time_series_data *)

SeriesColumns == {"OpenDate", "OpenDateTime"}

\* df.groupby('OpenDate').size().reset_index(name='Count'), columns renamed
\* to Date and Count: one row per day that has records, in ascending order
DailyCounts(rows) ==
    LET vc == ValueCounts(Column(rows, "OpenDate"))
    IN  [k \in 1..Len(vc) |-> [Date |-> vc[k].label, Count |-> vc[k].count]]

\* df.groupby(pd.Grouper(key='OpenDateTime', freq='MS')).size(): one row per
\* month from that of the first record to that of the last, dated by the
\* first day of the month
MonthlyCounts(rows) ==
    LET months == {MonthIndex(DayNumber(rows[k].OpenDateTime)) :
                      k \in 1..Len(rows)}
        first == CHOOSE m \in months : \A o \in months : m <= o
        last == CHOOSE m \in months : \A o \in months : o <= m
    IN  [k \in 1..(last - first + 1) |->
            [Date |-> MonthStart(first + k - 1),
             Count |-> Cardinality({j \in 1..Len(rows) :
                          MonthIndex(DayNumber(rows[j].OpenDateTime))
                              = first + k - 1})]]

\* series['Date'].min() and .max()
MinDate(series) ==
    CHOOSE d \in {series[k].Date : k \in 1..Len(series)} :
        \A k \in 1..Len(series) : d <= series[k].Date
MaxDate(series) ==
    CHOOSE d \in {series[k].Date : k \in 1..Len(series)} :
        \A k \in 1..Len(series) : series[k].Date <= d

\* pd.date_range(start, end) and pd.date_range(start, end, freq='MS')
CalendarRange(start, end, freq) ==
    IF freq = "D" THEN [k \in 1..(end - start + 1) |-> start + k - 1]
    ELSE LET first == CHOOSE m \in 0..24 :
                          /\ MonthStart(m) >= start
                          /\ \A o \in 0..(m - 1) : MonthStart(o) < start
             last == CHOOSE m \in 0..23 :
                          /\ MonthStart(m) <= end
                          /\ MonthStart(m + 1) > end
         IN  [k \in 1..(last - first + 1) |-> MonthStart(first + k - 1)]

\* variant: an inner merge, which keeps only the dates that have a count
Complete_Inner(series, freq) == series

\* pd.merge(date_df, series, on='Date', how='left').fillna(0): the dates of
\* a series are those of a groupby, so no date occurs twice, and the merge
\* gives one row per date of the range, of count 0 for a date without one
Complete(series, freq) ==
    LET range == CalendarRange(MinDate(series), MaxDate(series), freq)
    IN  [k \in 1..Len(range) |->
            IF \E j \in 1..Len(series) : series[j].Date = range[k]
            THEN series[CHOOSE j \in 1..Len(series) :
                            series[j].Date = range[k]]
            ELSE [Date |-> range[k], Count |-> 0]]

\* a missing column raises KeyError, an empty table raises at date_range
\* (start and end are NaT); nothing catches either
PrepareRaises(d) ==
    \/ ~(SeriesColumns \subseteq d.columns)
    \/ Len(d.rows) = 0

prepare_time_series_data(d) ==
    IF PrepareRaises(d)
    THEN [raised |-> TRUE, daily |-> <<>>, monthly |-> <<>>]
    ELSE [raised |-> FALSE,
          daily |-> Complete(DailyCounts(d.rows), "D"),
          monthly |-> Complete(MonthlyCounts(d.rows), "MS")]

----------------------------------------------------------------------------
(* components/predictions.py: render_time_series_decomposition, and        *)
(* components/time_analysis.py: render_seasonal_analysis                   *)

\* period_options: 12 and 3 months, 7 days
PeriodOptions == {12, 3, 7}

\* variant: one cycle is enough
MinLength_OneCycle(p) == p

\* min_length = 2 * period
MinLength(p) == 2 * p

\* series.set_index('Date')['Count']
CountSeries(series, freq) ==
    [freq |-> freq,
     index |-> [k \in 1..Len(series) |-> series[k].Date],
     values |-> [k \in 1..Len(series) |-> series[k].Count]]

\* variant: the plot is drawn whatever the decomposition returned
Outcome_AlwaysPlot(decomposition, failure) ==
    [shown |-> "plot", processed |-> TRUE]

\* if decomposition: the plot and the component summaries; else the message
Outcome(decomposition, failure) ==
    IF decomposition.some THEN [shown |-> "plot", processed |-> TRUE]
    ELSE [shown |-> failure, processed |-> FALSE]

\* the body both pages share: the monthly series for the periods 12 and 3,
\* the daily one for 7; the decomposition only with min_length rows, else
\* the warning that names min_length.  prepare_time_series_data is not
\* guarded, so what it raises leaves the page.
RenderDecomposition(d, p, f, failure) ==
    LET prepared == prepare_time_series_data(d)
        series == IF p \in {12, 3} THEN prepared.monthly ELSE prepared.daily
        freq == IF p \in {12, 3} THEN "MS" ELSE "D"
        counts == CountSeries(series, freq)
        outcome == Outcome(perform_seasonal_decomposition(counts, p, f),
                           failure)
    IN  IF prepared.raised
        THEN [raised |-> TRUE, attempted |-> FALSE, observations |-> 0,
              required |-> 0, shown |-> "", processed |-> FALSE]
        ELSE IF Len(series) >= MinLength(p)
        THEN [raised |-> FALSE, attempted |-> TRUE,
              observations |-> Len(counts.values), required |-> 0,
              shown |-> outcome.shown, processed |-> outcome.processed]
        ELSE [raised |-> FALSE, attempted |-> FALSE, observations |-> 0,
              required |-> MinLength(p), shown |-> "warning",
              processed |-> FALSE]

render_time_series_decomposition(d, p, f) ==
    RenderDecomposition(d, p, f, "error")
render_seasonal_analysis(d, p, f) ==
    RenderDecomposition(d, p, f, "warning")

\* tables for the two pages: up to MaxRecords servers at a steady gap, two
\* servers 5, 6, 23 and 24 calendar months apart, and a table without the
\* date column
SpanDays == {140, 150, 690, 700}
SpanTables ==
    {Table(<<Row(1, StartTime, "A", 1),
             Row(2, StartTime + days * DayTicks, "B", 1)>>, "naive") :
        days \in SpanDays}
PageTables ==
    {Table(Rows(n, g, 0, 1, 1), "naive") : n \in 0..MaxRecords, g \in GapHours}
    \cup SpanTables
    \cup {[columns |-> TableColumns \ {"OpenDate"}, tz |-> "naive",
           rows |-> Rows(5, 48, 0, 4, 1)]}

----------------------------------------------------------------------------
(* components/predictions.py: render_time_series_forecast *)

ModelTypes == {"ARIMA (Auto-tuned)", "SARIMA (Seasonal)"}

\* the three names bound by the call of the forecaster
ForecastComponents == {"forecast_values", "forecast_dates", "model_fit"}

\* if forecast_values is not None and len(forecast_values) > 0
ForecastPresent(r) ==
    r.forecast_values.some /\ Len(r.forecast_values.val) > 0

\* the try block: the forecaster chosen by model_type (the ARIMA one with
\* the order of the grid search), then the chart and the summaries, which
\* read all three components, or the error message, which reads none
render_time_series_forecast(mt, series, n, g, f) ==
    LET optimal_params == find_optimal_arima_params(g).order
        r == IF mt = "ARIMA (Auto-tuned)"
             THEN forecast_with_arima(series, n, f)
             ELSE forecast_with_sarima(series, n, f)
    IN  IF ForecastPresent(r)
        THEN [raised |-> FALSE, shown |-> "chart",
              used |-> ForecastComponents, forecast |-> r,
              order |-> IF mt = "ARIMA (Auto-tuned)" THEN optimal_params
                        ELSE <<1, 1, 1>>]
        ELSE [raised |-> FALSE, shown |-> "error",
              used |-> {}, forecast |-> r,
              order |-> IF mt = "ARIMA (Auto-tuned)" THEN optimal_params
                        ELSE <<1, 1, 1>>]

\* the fits of the grid search before an ARIMA forecast
RenderGrids == {g \in Grids : DOMAIN g \subseteq {<<2, 0, 1>>}}

\* token sequences: every sequence of two tokens up to MaxSeqLen, and the
\* exact repetitions (3 to MaxRepeats times) of a cycle of 1 to 8 distinct
\* tokens
Tokens == <<"A", "B", "C", "D", "E", "F", "G", "H">>
Repeat(L, k) == [j \in 1..(L * k) |-> Tokens[((j - 1) % L) + 1]]
ShortSequences ==
    UNION {[1..n -> {"A", "B"}] : n \in 0..MaxSeqLen}
CycleSequences == {Repeat(L, k) : L \in 1..8, k \in 3..MaxRepeats}
Sequences_ == ShortSequences \cup CycleSequences
MaxLengths == {1, 2, DefaultMaxLength}

----------------------------------------------------------------------------
(* Specification *)

InitPredict ==
    /\ op = "predict_next_servers"
    /\ df \in Tables
    /\ num_servers \in 0..MaxNumServers
    /\ current_time_wib \in Nows
    /\ NoSeriesArgs /\ NoSequenceArgs /\ NoGridArgs /\ NoPeriodArg /\ NoSession

InitForecast ==
    /\ op \in {"forecast_with_arima", "forecast_with_sarima"}
    /\ ts \in Series
    /\ periods \in 1..MaxPeriods
    /\ fit \in Fits(periods)
    /\ NoTableArgs /\ NoSequenceArgs /\ NoGridArgs /\ NoPeriodArg /\ NoSession

Return(value) ==
    /\ pc' = "done"
    /\ ret' = value
    /\ UNCHANGED <<op, df, num_servers, current_time_wib, ts, periods, fit,
                   sequence, max_length, grid, model_type, period,
                   session_state, notified, subscribers,
                   last_notification_sent, replies>>

PredictNextServers ==
    /\ pc = "call" /\ op = "predict_next_servers"
    /\ Return(predict_next_servers(df, num_servers, current_time_wib))

ForecastWithArima ==
    /\ pc = "call" /\ op = "forecast_with_arima"
    /\ Return(forecast_with_arima(ts, periods, fit))

ForecastWithSarima ==
    /\ pc = "call" /\ op = "forecast_with_sarima"
    /\ Return(forecast_with_sarima(ts, periods, fit))

InitPredictor == pc = "call" /\ ret = NoReturn /\ InitPredict
NextPredictor == PredictNextServers
SpecPredict == InitPredictor /\ [][NextPredictor]_vars

\* the calls of the two pattern detectors
InitPattern ==
    /\ op \in {"detect_pattern_length", "_detect_map_pattern"}
    /\ sequence \in Sequences_
    /\ max_length \in (IF op = "detect_pattern_length" THEN MaxLengths ELSE {0})
    /\ NoTableArgs /\ NoSeriesArgs /\ NoGridArgs /\ NoPeriodArg /\ NoSession

DetectPatternLength ==
    /\ pc = "call" /\ op = "detect_pattern_length"
    /\ Return(detect_pattern_length(sequence, max_length))

DetectMapPattern ==
    /\ pc = "call" /\ op = "_detect_map_pattern"
    /\ Return(detect_map_pattern(sequence))

InitPatterns == pc = "call" /\ ret = NoReturn /\ InitPattern
NextPatterns == DetectPatternLength \/ DetectMapPattern
SpecPattern == InitPatterns /\ [][NextPatterns]_vars

\* the calls of the grid search
InitGrid ==
    /\ op = "find_optimal_arima_params"
    /\ grid \in Grids
    /\ model_type = ""
    /\ NoTableArgs /\ NoSeriesArgs /\ NoSequenceArgs /\ NoPeriodArg /\ NoSession

FindOptimalArimaParams ==
    /\ pc = "call" /\ op = "find_optimal_arima_params"
    /\ Return(find_optimal_arima_params(grid))

InitArima == pc = "call" /\ ret = NoReturn /\ InitGrid
NextArima == FindOptimalArimaParams
SpecArima == InitArima /\ [][NextArima]_vars

\* the calls of the forecast page
InitRender ==
    /\ op = "render_time_series_forecast"
    /\ model_type \in ModelTypes
    /\ ts \in Series
    /\ periods \in 1..MaxPeriods
    /\ fit \in Fits(periods)
    /\ grid \in (IF model_type = "ARIMA (Auto-tuned)" THEN RenderGrids
                 ELSE {NoGrid})
    /\ NoTableArgs /\ NoSequenceArgs /\ NoPeriodArg /\ NoSession

RenderTimeSeriesForecast ==
    /\ pc = "call" /\ op = "render_time_series_forecast"
    /\ Return(render_time_series_forecast(model_type, ts, periods, grid, fit))

\* the calls of the pattern analysis
InitAnalysis ==
    /\ op = "analyze_time_patterns"
    /\ df \in Tables
    /\ num_servers = 0
    /\ current_time_wib = 0
    /\ NoSeriesArgs /\ NoSequenceArgs /\ NoGridArgs /\ NoPeriodArg /\ NoSession

AnalyzeTimePatterns ==
    /\ pc = "call" /\ op = "analyze_time_patterns"
    /\ Return(analyze_time_patterns(df))

InitAnalyze == pc = "call" /\ ret = NoReturn /\ InitAnalysis
NextAnalyze == AnalyzeTimePatterns
SpecAnalyze == InitAnalyze /\ [][NextAnalyze]_vars

InitForecaster == pc = "call" /\ ret = NoReturn /\ (InitForecast \/ InitRender)
NextForecaster ==
    ForecastWithArima \/ ForecastWithSarima \/ RenderTimeSeriesForecast
SpecForecast == InitForecaster /\ [][NextForecaster]_vars

\* the calls of the series preparation
InitPrepare ==
    /\ op = "prepare_time_series_data"
    /\ df \in Tables
    /\ num_servers = 0
    /\ current_time_wib = 0
    /\ NoSeriesArgs /\ NoSequenceArgs /\ NoGridArgs /\ NoPeriodArg /\ NoSession

PrepareTimeSeriesData ==
    /\ pc = "call" /\ op = "prepare_time_series_data"
    /\ Return(prepare_time_series_data(df))

InitSeries == pc = "call" /\ ret = NoReturn /\ InitPrepare
NextSeries == PrepareTimeSeriesData
SpecSeries == InitSeries /\ [][NextSeries]_vars

\* the calls of the decomposition
InitDecompose ==
    /\ op = "perform_seasonal_decomposition"
    /\ ts \in ObservedSeries
    /\ period \in DecompositionPeriods
    /\ periods = 0
    /\ fit \in LibraryOutcomes
    /\ NoTableArgs /\ NoSequenceArgs /\ NoGridArgs /\ NoSession

PerformSeasonalDecomposition ==
    /\ pc = "call" /\ op = "perform_seasonal_decomposition"
    /\ Return(perform_seasonal_decomposition(ts, period, fit))

\* the calls of the two pages that decompose
InitPages ==
    /\ op \in {"render_time_series_decomposition", "render_seasonal_analysis"}
    /\ df \in PageTables
    /\ period \in PeriodOptions
    /\ fit \in LibraryOutcomes
    /\ num_servers = 0
    /\ current_time_wib = 0
    /\ ts = NoSeries
    /\ periods = 0
    /\ NoSequenceArgs /\ NoGridArgs /\ NoSession

RenderTimeSeriesDecomposition ==
    /\ pc = "call" /\ op = "render_time_series_decomposition"
    /\ Return(render_time_series_decomposition(df, period, fit))

RenderSeasonalAnalysis ==
    /\ pc = "call" /\ op = "render_seasonal_analysis"
    /\ Return(render_seasonal_analysis(df, period, fit))

\* a second call of the predictor with the same table and the same
\* num_servers, after the clock of line 174 has moved on to any instant;
\* the call reads nothing but its arguments and the clock
RecomputeTables ==
    {Table(Rows(n, g, 0, 4, 1), "aware") : n \in 0..MaxRecords, g \in GapHours}

InitRecompute ==
    /\ op = "predict_next_servers"
    /\ df \in RecomputeTables
    /\ num_servers \in 0..MaxNumServers
    /\ current_time_wib \in Nows
    /\ NoSeriesArgs /\ NoSequenceArgs /\ NoGridArgs /\ NoPeriodArg /\ NoSession

PredictAgain ==
    /\ pc = "done" /\ op = "predict_next_servers"
    /\ pc' = "recomputed"
    /\ current_time_wib' \in Nows
    /\ ret' = [raised |-> FALSE,
               first |-> ret,
               second |-> predict_next_servers(df, num_servers,
                                               current_time_wib'),
               first_time |-> current_time_wib]
    /\ UNCHANGED <<op, df, num_servers, ts, periods, fit, sequence,
                   max_length, grid, model_type, period, session_state,
                   notified, subscribers, last_notification_sent, replies>>

InitRepeat == pc = "call" /\ ret = NoReturn /\ InitRecompute
NextRepeat == PredictNextServers \/ PredictAgain
SpecRecompute == InitRepeat /\ [][NextRepeat]_vars

InitDecomposition ==
    pc = "call" /\ ret = NoReturn /\ (InitDecompose \/ InitPages)
NextDecomposition ==
    \/ PerformSeasonalDecomposition
    \/ RenderTimeSeriesDecomposition
    \/ RenderSeasonalAnalysis
SpecDecompose == InitDecomposition /\ [][NextDecomposition]_vars

----------------------------------------------------------------------------
(* components/notification.py and app.py: the notification check of a
   dashboard session.  Every rerun of the script runs main; the wall clock
   is current_time_wib, in ticks. *)

\* NOTIFICATION_CONFIG["notification_interval"] (config.py, default 24) and
\* the width of the window of line 300, in hours
notification_interval == 24
WindowHours == 4

\* _is_rate_limited(key, limit_seconds) for the key "notification_check":
\* the answer and the session state it leaves
is_rate_limited(session, current_time, limit_seconds) ==
    IF current_time - session.last_notification_check_time
          < Ticks(limit_seconds)
    THEN [limited |-> TRUE, session |-> session]
    ELSE [limited |-> FALSE,
          session |-> [session EXCEPT
                          !.last_notification_check_time = current_time]]

\* strptime of "Tanggal Jam", localized (lines 286-290)
server_datetime(server) ==
    server.Tanggal * DayTicks + server.Jam[1] * HourTicks
        + server.Jam[2] * Ticks(60) + Ticks(server.Jam[3])

\* notification_interval <= time_diff <= notification_interval + 4 (line 300)
InWindow(server, now) ==
    /\ notification_interval * HourTicks <= server_datetime(server) - now
    /\ server_datetime(server) - now
          <= (notification_interval + WindowHours) * HourTicks

\* the loop of lines 282-310 over the predicted servers: the id notified
\* last and the calls of notify_new_server, in order
RECURSIVE NotifyLoop(_, _, _, _)
NotifyLoop(servers, now, last_notified, sent) ==
    IF servers = <<>>
    THEN [last_notified |-> last_notified, sent |-> sent]
    ELSE LET server == Head(servers)
             send == InWindow(server, now) /\ server.ServerId # last_notified
         IN  NotifyLoop(Tail(servers), now,
                        IF send THEN server.ServerId ELSE last_notified,
                        IF send THEN Append(sent, server.ServerId) ELSE sent)

\* schedule_notification_check(df, notification_manager) at clock now: the
\* session state it leaves and the servers it notifies
schedule_notification_check(session, d, now) ==
    LET rate == is_rate_limited(session, now, 3600)
        next_servers == predict_next_servers(d, 3, now)
        servers == IF next_servers.raised THEN <<>> ELSE next_servers.rows
        loop == NotifyLoop(servers, now,
                           rate.session.last_notified_server_id, <<>>)
    IN  IF rate.limited
        THEN [session |-> session, sent |-> <<>>]
        ELSE [session |-> [rate.session EXCEPT
                              !.last_notified_server_id = loop.last_notified],
              sent |-> loop.sent]

\* lines 110-121 of main at clock current_time; the clock reads inside the
\* check come skew ticks later
main(session, d, current_time, skew) ==
    IF Len(d.rows) = 0
        \/ ~(current_time - session.last_notification_check > Ticks(3600))
    THEN [session |-> session, sent |-> <<>>]
    ELSE LET check == schedule_notification_check(session, d,
                                                  current_time + skew)
         IN  [session |-> [check.session EXCEPT
                              !.last_notification_check = current_time],
              sent |-> check.sent]

\* servers opened in pairs, 10 minutes apart, the same evening of every week
PairRows(n) ==
    [k \in 1..n |->
        Row(k,
            StartTime + ((k - 1) \div 2) * 7 * DayTicks
                + ((k - 1) % 2) * Ticks(600),
            Alphabet[((k - 1) % 4) + 1],
            1 + (k - 1) \div ServersPerDistrict)]
PairTables == {Table(PairRows(n), "aware") : n \in {5, 7}}

\* the tables of a session: servers opened minutes apart, hours apart,
\* days apart and in weekly pairs, and the empty table
SessionTables ==
    DenseTables \cup PairTables
    \cup {Table(Rows(n, g, 0, 4, 1), "aware") : n \in {0, 5}, g \in {7, 48}}

\* the clock when the session starts, the time between two reruns and the
\* time between the clock reads of one rerun
SessionStarts ==
    {d * DayTicks + 15 * HourTicks : d \in {3, 13, 24}}
RerunSteps == {Ticks(1800), Ticks(3601), Ticks(7200)}
ClockSkews == {0, 1}

InitSession ==
    /\ op = "main"
    /\ df \in SessionTables
    /\ current_time_wib \in SessionStarts
    /\ num_servers = 0
    /\ session_state = NewSession
    /\ notified = <<>>
    /\ subscribers = NoSubscribers
    /\ last_notification_sent = NoRateKeys
    /\ replies = <<>>
    /\ NoSeriesArgs /\ NoSequenceArgs /\ NoGridArgs /\ NoPeriodArg

\* one rerun of the script, some time after the one before
Main ==
    /\ pc = "session" /\ op = "main"
    /\ \E step \in RerunSteps, skew \in ClockSkews :
          LET current_time == current_time_wib + step
              run == main(session_state, df, current_time, skew)
          IN  /\ \E start \in SessionStarts :
                    /\ current_time_wib >= start
                    /\ current_time + skew
                          <= start + MaxSessionHours * HourTicks
              /\ current_time_wib' = current_time + skew
              /\ session_state' = run.session
              /\ notified' = notified \o run.sent
    /\ UNCHANGED <<pc, op, df, num_servers, ts, periods, fit, sequence,
                   max_length, grid, model_type, period, ret, subscribers,
                   last_notification_sent, replies>>

InitNotify == pc = "session" /\ ret = NoReturn /\ InitSession
NextNotify == Main
SpecNotify == InitNotify /\ [][NextNotify]_vars

----------------------------------------------------------------------------
(* utils/telegram_bot.py and utils/notification.py: the subscription
   commands of the bot.  The bot process keeps one NotificationManager:
   subscribers is its list subscribers["telegram"]. *)

Users == {1, 2}

IsSubscribed(list, telegram_id) ==
    \E k \in 1..Len(list) : list[k] = telegram_id

\* list.remove: the list without its first occurrence of telegram_id
Remove(list, telegram_id) ==
    LET k == CHOOSE i \in 1..Len(list) :
                 /\ list[i] = telegram_id
                 /\ \A j \in 1..(i - 1) : list[j] # telegram_id
    IN  SubSeq(list, 1, k - 1) \o SubSeq(list, k + 1, Len(list))

\* last_notification_sent[rate_key] = current_time
SetRateKey(sent, telegram_id, current_time) ==
    [u \in DOMAIN sent \cup {telegram_id} |->
        IF u = telegram_id THEN current_time ELSE sent[u]]

\* NotificationManager.add_telegram_subscriber(telegram_id) at clock
\* current_time; saved is the outcome of _save_subscribers
add_telegram_subscriber(list, sent, telegram_id, current_time, saved) ==
    IF /\ telegram_id \in DOMAIN sent
       /\ current_time - sent[telegram_id] < Ticks(86400)
    THEN [success |-> FALSE, subscribers |-> list, sent |-> sent]
    ELSE IF ~IsSubscribed(list, telegram_id)
    THEN [success |-> saved,
          subscribers |-> Append(list, telegram_id),
          sent |-> IF saved THEN SetRateKey(sent, telegram_id, current_time)
                   ELSE sent]
    ELSE [success |-> FALSE, subscribers |-> list, sent |-> sent]

\* NotificationManager.remove_telegram_subscriber(telegram_id)
remove_telegram_subscriber(list, sent, telegram_id, saved) ==
    IF IsSubscribed(list, telegram_id)
    THEN [success |-> saved,
          subscribers |-> Remove(list, telegram_id),
          sent |-> sent]
    ELSE [success |-> FALSE, subscribers |-> list, sent |-> sent]

\* a command of a user, the reply it got and whether the subscriber file
\* could be written
Reply(user, command, text, saved) ==
    [user |-> user, command |-> command, reply |-> text, saved |-> saved]

\* the time between two commands: an hour, or more than a day
CommandSteps == {Ticks(3600), Ticks(90000)}
BotStart == StartTime

InitBot ==
    /\ op = "telegram_bot"
    /\ current_time_wib = BotStart
    /\ df = NoTable
    /\ num_servers = 0
    /\ session_state = NewSession
    /\ notified = <<>>
    /\ subscribers = NoSubscribers
    /\ last_notification_sent = NoRateKeys
    /\ replies = <<>>
    /\ NoSeriesArgs /\ NoSequenceArgs /\ NoGridArgs /\ NoPeriodArg

\* what a command leaves alone
BotFrame ==
    UNCHANGED <<pc, op, df, num_servers, ts, periods, fit, sequence,
                max_length, grid, model_type, period, ret, session_state,
                notified>>

\* subscribe_command (lines 39-59)
SubscribeCommand ==
    /\ pc = "bot" /\ op = "telegram_bot"
    /\ Len(replies) < MaxCommands
    /\ \E user_id \in Users, step \in CommandSteps, saved \in BOOLEAN :
          LET now == current_time_wib + step
              added == add_telegram_subscriber(subscribers,
                           last_notification_sent, user_id, now, saved)
              attempted == added.subscribers # subscribers
          IN  /\ current_time_wib' = now
              /\ subscribers' = added.subscribers
              /\ last_notification_sent' = added.sent
              /\ replies' = Append(replies,
                    Reply(user_id, "subscribe",
                          IF added.success THEN "Berhasil berlangganan"
                          ELSE "Anda sudah berlangganan",
                          attempted => saved))
    /\ BotFrame

\* unsubscribe_command (lines 62-82)
UnsubscribeCommand ==
    /\ pc = "bot" /\ op = "telegram_bot"
    /\ Len(replies) < MaxCommands
    /\ \E user_id \in Users, step \in CommandSteps, saved \in BOOLEAN :
          LET removed == remove_telegram_subscriber(subscribers,
                             last_notification_sent, user_id, saved)
              attempted == removed.subscribers # subscribers
          IN  /\ current_time_wib' = current_time_wib + step
              /\ subscribers' = removed.subscribers
              /\ last_notification_sent' = removed.sent
              /\ replies' = Append(replies,
                    Reply(user_id, "unsubscribe",
                          IF removed.success THEN "Anda telah berhenti"
                          ELSE "Anda tidak berlangganan",
                          attempted => saved))
    /\ BotFrame

\* status_command (lines 85-104)
StatusCommand ==
    /\ pc = "bot" /\ op = "telegram_bot"
    /\ Len(replies) < MaxCommands
    /\ \E user_id \in Users, step \in CommandSteps :
          /\ current_time_wib' = current_time_wib + step
          /\ replies' = Append(replies,
                Reply(user_id, "status",
                      IF IsSubscribed(subscribers, user_id)
                      THEN "Berlangganan Aktif" ELSE "Tidak Berlangganan",
                      TRUE))
    /\ UNCHANGED <<subscribers, last_notification_sent>>
    /\ BotFrame

InitCommands == pc = "bot" /\ ret = NoReturn /\ InitBot
NextCommands == SubscribeCommand \/ UnsubscribeCommand \/ StatusCommand
SpecBot == InitCommands /\ [][NextCommands]_vars

\* every call of every component, every session and the bot
Init ==
    \/ InitPredictor
    \/ InitForecaster
    \/ InitPatterns
    \/ InitArima
    \/ InitAnalyze
    \/ InitSeries
    \/ InitDecomposition
    \/ InitNotify
    \/ InitCommands

Next ==
    \/ PredictNextServers
    \/ ForecastWithArima
    \/ ForecastWithSarima
    \/ RenderTimeSeriesForecast
    \/ DetectPatternLength
    \/ DetectMapPattern
    \/ FindOptimalArimaParams
    \/ AnalyzeTimePatterns
    \/ PrepareTimeSeriesData
    \/ PerformSeasonalDecomposition
    \/ RenderTimeSeriesDecomposition
    \/ RenderSeasonalAnalysis
    \/ PredictAgain
    \/ Main
    \/ SubscribeCommand
    \/ UnsubscribeCommand
    \/ StatusCommand

Spec == Init /\ [][Next]_vars

----------------------------------------------------------------------------
(* Properties of predict_next_servers *)

PredictDone == pc = "done" /\ op = "predict_next_servers"
PredictSucceeded == PredictDone /\ ret.rows # <<>>
WellFormed(d) == RequiredColumns \subseteq d.columns

\* the largest ServerId of the table
MaxServerId(rows) ==
    CHOOSE m \in Range([k \in 1..Len(rows) |-> rows[k].ServerId]) :
        \A k \in 1..Len(rows) : rows[k].ServerId <= m

\* C1: whenever predict_next_servers(table, N) succeeds, it returns N records
\* whose ServerId values are last_id+1, ..., last_id+N in that order, where
\* last_id is the largest ServerId of the table; none of them is an id of the
\* table and none is repeated.
C1_PredictedIds ==
    PredictSucceeded =>
        LET last_id == MaxServerId(df.rows)
        IN  /\ Len(ret.rows) = num_servers
            /\ \A i \in 1..Len(ret.rows) :
                  /\ ret.rows[i].ServerId = last_id + i
                  /\ \A k \in 1..Len(df.rows) :
                        df.rows[k].ServerId # ret.rows[i].ServerId
            /\ \A i, j \in 1..Len(ret.rows) :
                  i # j => ret.rows[i].ServerId # ret.rows[j].ServerId

C1_Witness ==
    /\ PredictSucceeded
    /\ Len(ret.rows) = 5
    /\ LET last_id == MaxServerId(df.rows)
       IN  last_id > 100 /\ ret.rows[5].ServerId = last_id + 5

\* C2: a zone-naive table (the form process_server_data produces) that has
\* all columns and at least two records yields num_servers predictions, not
\* the empty result of the error path.
C2_NaiveTablePredicts ==
    (PredictDone /\ df.tz = "naive" /\ WellFormed(df) /\ Len(df.rows) >= 2
        /\ num_servers >= 1)
    => Len(ret.rows) = num_servers

\* the map types of the table in open-time order
MapTypesInOrder(rows) ==
    LET sorted == SortByOpenDateTime(rows)
    IN  [k \in 1..Len(sorted) |-> sorted[k].MapType]

\* m cycles through four distinct values, at least twice
IsFourCycle(m) ==
    /\ Len(m) >= 8
    /\ \A a, b \in 1..4 : a # b => m[a] # m[b]
    /\ \A k \in 5..Len(m) : m[k] = m[k - 4]

\* C3: for a table whose map types, in open-time order, cycle through four
\* distinct values, the predicted map types continue the cycle: the i-th
\* predicted map type is the one the cycle has i places after the last
\* historical map type.
C3_MapCycleContinues ==
    (PredictSucceeded /\ IsFourCycle(MapTypesInOrder(df.rows))) =>
        LET m == MapTypesInOrder(df.rows)
        IN  \A i \in 1..Len(ret.rows) :
               ret.rows[i].MapType = m[((Len(m) + i - 1) % 4) + 1]

\* the record of the table with the largest ServerId
AnchorRecord(rows) ==
    LET last_id == MaxServerId(rows)
    IN  CHOOSE r \in Range(rows) : r.ServerId = last_id

\* C4: the district of the i-th prediction is last_district + floor((i-1)/4),
\* last_district being the district of the last known record; so across 8
\* predictions the district goes up by exactly 1 from the 4th to the 5th and
\* stays the same between every other pair of neighbours.
C4_DistrictLaw ==
    PredictSucceeded =>
        LET last_district == AnchorRecord(df.rows).DistrictId
        IN  /\ \A i \in 1..Len(ret.rows) :
                  ret.rows[i].DistrictId = last_district + ((i - 1) \div 4)
            /\ Len(ret.rows) >= 8 =>
                  \A i \in 1..7 :
                      ret.rows[i + 1].DistrictId - ret.rows[i].DistrictId =
                          (IF i = 4 THEN 1 ELSE 0)

C4_Witness ==
    /\ PredictSucceeded
    /\ Len(ret.rows) = 8
    /\ ret.rows[5].DistrictId = ret.rows[4].DistrictId + 1
    /\ ret.rows[8].DistrictId = ret.rows[5].DistrictId

----------------------------------------------------------------------------
(* Properties of forecast_with_arima and forecast_with_sarima *)

ForecastDone ==
    pc = "done" /\ op \in {"forecast_with_arima", "forecast_with_sarima"}
ForecastSucceeded == ForecastDone /\ ret.forecast_values.some

\* the month m whose first day is d
MonthOfStart(d) == CHOOSE m \in 0..24 : MonthStart(m) = d

\* the date one cadence unit after d: the next day of a daily series, the
\* first day of the next month of a month-start series
NextAtCadence(freq, d) ==
    IF freq = "D" THEN d + 1 ELSE MonthStart(MonthOfStart(d) + 1)

\* C5: on success the forecast dates run at the cadence of the input series:
\* the first is one cadence unit (a day, or a month for a month-start series)
\* after the last observed date, and each later one is one cadence unit after
\* the one before it.
C5_DatesAtCadence ==
    ForecastSucceeded =>
        LET dates == ret.forecast_dates.val
        IN  /\ dates[1] = NextAtCadence(ts.freq, ts.index[Len(ts.index)])
            /\ \A k \in 1..(Len(dates) - 1) :
                  dates[k + 1] = NextAtCadence(ts.freq, dates[k])

\* C6: every returned forecast value is max(raw model output, 0): a negative
\* raw value comes back as 0, any other unchanged, so no value is negative.
C6_NonNegative ==
    ForecastSucceeded =>
        LET values == ret.forecast_values.val
        IN  /\ Len(values) = Len(fit.raw)
            /\ \A k \in 1..Len(values) :
                  /\ values[k] >= 0
                  /\ fit.raw[k] < 0 => values[k] = 0
                  /\ fit.raw[k] >= 0 => values[k] = fit.raw[k]

C6_Witness ==
    /\ ForecastSucceeded
    /\ \E k \in 1..Len(fit.raw) :
          fit.raw[k] < 0 /\ ret.forecast_values.val[k] = 0
    /\ \E k \in 1..Len(fit.raw) :
          fit.raw[k] > 0 /\ ret.forecast_values.val[k] = fit.raw[k]

\* C7: whenever a forecaster succeeds for a horizon periods >= 1, the number
\* of forecast values and the number of forecast dates both equal periods.
C7_HorizonExact ==
    (ForecastSucceeded /\ periods >= 1) =>
        /\ ret.forecast_dates.some
        /\ Len(ret.forecast_values.val) = periods
        /\ Len(ret.forecast_dates.val) = periods

C7_Witness ==
    /\ ForecastSucceeded
    /\ periods >= 2
    /\ Len(ret.forecast_values.val) = periods
    /\ Len(ret.forecast_dates.val) = periods

----------------------------------------------------------------------------
(* Failure, time adjustment and lead time of predict_next_servers *)

\* C8: predict_next_servers never lets an exception out; for an empty table
\* and for a table on which a step cannot execute (a missing column, no last
\* record, no gap to take a median of) it returns no rows under exactly the
\* columns ServerId, Tanggal, Jam, DistrictId, MapType, Estimasi, the columns
\* of a successful result.
C8_FailsEmpty ==
    PredictDone =>
        /\ ~ret.raised
        /\ ret.columns =
              <<"ServerId", "Tanggal", "Jam", "DistrictId", "MapType",
                "Estimasi">>
        /\ (~WellFormed(df) \/ Len(df.rows) < 2) => ret.rows = <<>>

C8_Witness ==
    /\ PredictDone
    /\ num_servers >= 1
    /\ ~WellFormed(df) \/ Len(df.rows) = 0
    /\ ret.rows = <<>>
    /\ Len(ret.columns) = 6

\* the base projected time of slot i: the anchor's open time plus i times
\* the median gap of the recency window
BaseTime(rows, i) ==
    AnchorRecord(rows).OpenDateTime
        + i * Median(TimeDeltas(RecentServers(rows)))

\* C9: with hour-consistency > 0.5 every projected time is at the modal hour,
\* minutes and seconds zero, on the day of the base projected time; with
\* weekday-consistency > 0.5 as well, the date is moved on by
\* (modal_weekday - projected_weekday) mod 7 days, 0 to 6 days and never
\* back, so that it falls on the modal weekday; with hour-consistency <= 0.5
\* date and time are those of the base projected time, whatever the
\* weekday-consistency.
C9_Snapping ==
    PredictSucceeded =>
        LET st == Statistics(df.rows)
        IN  \A i \in 1..Len(ret.rows) :
               LET base == BaseTime(df.rows, i)
                   shift == (st.most_common_day - DayOfWeekOf(base)) % 7
                   r == ret.rows[i]
               IN  /\ st.hour_consistent =>
                        r.Jam = <<st.most_common_hour, 0, 0>>
                   /\ (st.hour_consistent /\ st.day_consistent) =>
                        /\ r.Tanggal = DayNumber(base) + shift
                        /\ shift \in 0..6
                        /\ (r.Tanggal + 3) % 7 = st.most_common_day
                   /\ (st.hour_consistent /\ ~st.day_consistent) =>
                        r.Tanggal = DayNumber(base)
                   /\ ~st.hour_consistent =>
                        /\ r.Tanggal = DayNumber(base)
                        /\ r.Jam = <<HourOf(base), MinuteOf(base),
                                     SecondOf(base)>>

\* both adjustments at work: the hour is snapped away from the base hour or
\* minute, and the date is moved on to the modal weekday
C9_Witness ==
    /\ PredictSucceeded
    /\ LET st == Statistics(df.rows)
       IN  /\ st.hour_consistent /\ st.day_consistent
           /\ \E i \in 1..Len(ret.rows) :
                 LET base == BaseTime(df.rows, i)
                 IN  /\ HourOf(base) # st.most_common_hour
                     /\ DayOfWeekOf(base) # st.most_common_day
                     /\ ret.rows[i].Tanggal > DayNumber(base)
                     /\ ret.rows[i].Jam = <<st.most_common_hour, 0, 0>>

\* C10: the lead-time estimate of a predicted record is the 'already due'
\* string exactly when its projected open time is earlier than the current
\* time; otherwise it is 'D hari H jam lagi' with D >= 0 the whole days and
\* 0 <= H <= 23 the remaining whole hours of (projected time - now).
C10_LeadTime ==
    PredictSucceeded =>
        LET st == Statistics(df.rows)
        IN  \A i \in 1..Len(ret.rows) :
               LET until == NextOpenDateTime(st, i) - current_time_wib
                   e == ret.rows[i].Estimasi
               IN  /\ (e.kind = "Seharusnya sudah dibuka") <=> (until < 0)
                   /\ until >= 0 =>
                        /\ e.kind = "hari jam lagi"
                        /\ e.days >= 0
                        /\ e.hours \in 0..23
                        /\ e.days * DayTicks + e.hours * HourTicks <= until
                        /\ until < e.days * DayTicks + (e.hours + 1) * HourTicks

\* one result holding both an overdue record and one still to come
C10_Witness ==
    /\ PredictSucceeded
    /\ \E i, j \in 1..Len(ret.rows) :
          /\ ret.rows[i].Estimasi.kind = "Seharusnya sudah dibuka"
          /\ ret.rows[j].Estimasi.kind = "hari jam lagi"
          /\ ret.rows[j].Estimasi.hours > 0

\* the k-th smallest element of a sequence of numbers
KthSmallest(s, k) ==
    CHOOSE x \in Range(s) :
        /\ Cardinality({j \in 1..Len(s) : s[j] < x}) < k
        /\ k <= Cardinality({j \in 1..Len(s) : s[j] <= x})

\* the median by rank: the middle element, or the mean of the two middle ones
MedianByRank(s) ==
    IF Len(s) % 2 = 1 THEN KthSmallest(s, (Len(s) + 1) \div 2)
    ELSE (KthSmallest(s, Len(s) \div 2) + KthSmallest(s, Len(s) \div 2 + 1))
            \div 2

\* rows i of the result shows the time t, as far as the adjustments of lines
\* 184-190 let the base projected time through: date and time without hour
\* snapping, the date with hour snapping but no weekday snapping
ShowsBaseTime(st, r, t) ==
    /\ ~st.hour_consistent =>
          r.Tanggal = DayNumber(t) /\ r.Jam = <<HourOf(t), MinuteOf(t), SecondOf(t)>>
    /\ (st.hour_consistent /\ ~st.day_consistent) => r.Tanggal = DayNumber(t)

\* the window has 29 gaps, all equal to g but one, which is longer
OneOutlier(gaps, g) ==
    /\ Len(gaps) = 29
    /\ Cardinality({k \in 1..29 : gaps[k] = g}) = 28
    /\ \E k \in 1..29 : gaps[k] > g

----------------------------------------------------------------------------
(* Properties of detect_pattern_length and _detect_map_pattern *)

PatternLengthDone == pc = "done" /\ op = "detect_pattern_length"
MapPatternDone == pc = "done" /\ op = "_detect_map_pattern"

\* the number of windows of length L of seq that start at an offset L, 2L,
\* ... (0-based), lie inside seq and equal its first L tokens
StrideWindows(seq, L) ==
    Cardinality({o \in 1..Len(seq) :
                    /\ o % L = 0
                    /\ o + L <= Len(seq)
                    /\ \A t \in 1..L : seq[o + t] = seq[t]})

\* L meets both thresholds
Qualifies(seq, L) ==
    /\ 10 * StrideWindows(seq, L) >= 7 * ((Len(seq) - L) \div L)
    /\ StrideWindows(seq, L) > 1

\* C12: detect_pattern_length(seq, max_length) returns the smallest L in
\* 1..min(max_length, floor(len/2)) whose count m of stride-L windows equal
\* to seq[0:L] has m >= 0.7 * floor((len - L) / L) and m > 1; it returns 0
\* when len < 4 or no such L exists.
C12_SmallestQualifying ==
    PatternLengthDone =>
        LET n == Len(sequence)
            cand == {L \in 1..Min(max_length, n \div 2) : Qualifies(sequence, L)}
        IN  IF n < 4 \/ cand = {} THEN ret = 0
            ELSE ret \in cand /\ \A L \in cand : ret <= L

\* length 2 is returned although one of its windows does not match
C12_Witness ==
    /\ PatternLengthDone
    /\ ret = 2
    /\ StrideWindows(sequence, 2) < (Len(sequence) - 2) \div 2

\* seq is k exact repetitions of its first L tokens, which are distinct
IsRepetition(seq, L, k) ==
    /\ Len(seq) = L * k
    /\ \A a, b \in 1..L : a # b => seq[a] # seq[b]
    /\ \A j \in 1..Len(seq) : seq[j] = seq[((j - 1) % L) + 1]

\* C13: for a sequence of length >= 4 that is k >= 3 exact repetitions of a
\* cycle of L distinct tokens, 1 <= L <= 8, detect_pattern_length (with the
\* default max_length) returns exactly L, no multiple of L and nothing
\* smaller.
C13_ExactCycle ==
    (PatternLengthDone /\ max_length = 8 /\ Len(sequence) >= 4) =>
        \A L \in 1..8 :
            (L * 3 <= Len(sequence) /\ Len(sequence) % L = 0
                /\ IsRepetition(sequence, L, Len(sequence) \div L))
            => ret = L

\* a cycle of 3 repeated 6 times yields 3
C13_Witness ==
    /\ PatternLengthDone
    /\ max_length = 8
    /\ IsRepetition(sequence, 3, 6)
    /\ ret = 3

\* the number of windows of h that start before the final window of length
\* L and equal the last L tokens of h
Recurrences(h, L) ==
    Cardinality({p \in 1..(Len(h) - L) :
                    \A t \in 1..L : h[p + t - 1] = h[Len(h) - L + t]})

LastTokens(h, L) == [t \in 1..L |-> h[Len(h) - L + t]]

\* C14: _detect_map_pattern(h) returns the last L tokens of h for the
\* smallest L in 2..4 whose last L tokens also start a window at two or more
\* positions before the final window; with no such L and len(h) >= 4 it
\* returns the last 4 tokens; with len(h) < 4 it returns the default pattern.
C14_MapPattern ==
    MapPatternDone =>
        LET cand == {L \in 2..4 : L <= Len(sequence) /\ Recurrences(sequence, L) >= 2}
        IN  IF Len(sequence) < 4
            THEN ret = <<"Sever_Map_G1_1_v2", "Sever_Map_G1_2_v2",
                         "Sever_Map_G1_3_v2", "Sever_Map_G1_4_v2">>
            ELSE IF cand = {} THEN ret = LastTokens(sequence, 4)
            ELSE \E L \in cand :
                    /\ \A M \in cand : L <= M
                    /\ ret = LastTokens(sequence, L)

\* the last 2 tokens recur exactly twice before the final window
C14_Witness ==
    /\ MapPatternDone
    /\ Len(sequence) >= 6
    /\ Recurrences(sequence, 2) = 2
    /\ ret = LastTokens(sequence, 2)

\* C15: for a history of any length, the empty one included,
\* _detect_map_pattern returns a pattern of 2, 3 or 4 tokens, so the lookup
\* index (next_server_id - 1) mod pattern_length is defined and inside the
\* pattern.
C15_PatternUsable ==
    MapPatternDone =>
        /\ Len(ret) \in {2, 3, 4}
        /\ \A next_server_id \in 1..12 :
              MapIndex(next_server_id, ret) + 1 \in DOMAIN ret

C15_Witness ==
    /\ MapPatternDone
    /\ sequence = <<>>
    /\ Len(ret) = 4

----------------------------------------------------------------------------
(* Properties of find_optimal_arima_params *)

GridDone == pc = "done" /\ op = "find_optimal_arima_params"

\* the orders of the grid within the complexity cap
CappedOrders ==
    {<<p, d, q>> : p \in 0..2, d \in 0..1, q \in 0..2} \ {<<2, 1, 2>>}

\* the attempted orders whose fit succeeds
Fitted == DOMAIN grid \cap CappedOrders

\* the place of an order in the p-then-d-then-q iteration
IterationRank(o) == o[1] * 6 + o[2] * 3 + o[3]

\* C16: find_optimal_arima_params attempts a fit for exactly the orders
\* with p in 0..2, d in 0..1, q in 0..2 and p+d+q <= 4, and when at least
\* one attempted fit succeeds it returns an order of lowest AIC among the
\* successful fits, the first in iteration order on equal AIC.
C16_LowestAic ==
    GridDone =>
        /\ Range(ret.attempted) = CappedOrders
        /\ Len(ret.attempted) = 17
        /\ Fitted # {} =>
              /\ ret.order \in Fitted
              /\ \A o \in Fitted :
                    \/ grid[ret.order] < grid[o]
                    \/ /\ grid[ret.order] = grid[o]
                       /\ IterationRank(ret.order) <= IterationRank(o)

\* two fits tie on the lowest AIC, the later one is not returned, and the
\* order beyond the cap would have fitted as well
C16_Witness ==
    /\ GridDone
    /\ <<2, 1, 2>> \in DOMAIN grid
    /\ \E o \in Fitted :
          /\ o # ret.order
          /\ grid[o] = grid[ret.order]
          /\ IterationRank(o) > IterationRank(ret.order)

\* C17: a fit failure is skipped without aborting the search and without
\* changing which of the remaining orders is selected; if every attempted
\* order fails the result is (1,1,0); the call always returns an order.
C17_FailuresSkipped ==
    GridDone =>
        /\ \A o \in CappedOrders \ Fitted :
              \A later \in CappedOrders :
                  IterationRank(later) > IterationRank(o)
                      => later \in Range(ret.attempted)
        /\ Fitted = {} => ret.order = <<1, 1, 0>>
        /\ Fitted # {} =>
              ret.order = CHOOSE o \in Fitted :
                  \A other \in Fitted \ {o} :
                      \/ grid[o] < grid[other]
                      \/ /\ grid[o] = grid[other]
                         /\ IterationRank(o) < IterationRank(other)
        /\ ret.order \in CappedOrders

\* the first order fails to fit and a later one is selected
C17_Witness ==
    /\ GridDone
    /\ <<0, 0, 0>> \notin Fitted
    /\ Fitted # {}
    /\ ret.order \in Fitted
    /\ ret.order # <<1, 1, 0>>

----------------------------------------------------------------------------
(* Properties of the forecasters and their caller *)

RenderDone == pc = "done" /\ op = "render_time_series_forecast"

AllPresent(r) ==
    r.forecast_values.some /\ r.forecast_dates.some /\ r.model_fit.some
AllAbsent(r) ==
    ~r.forecast_values.some /\ ~r.forecast_dates.some /\ ~r.model_fit.some

\* C18: forecast_with_arima and forecast_with_sarima never propagate an
\* exception: on a failure while fitting or forecasting they return all
\* three components absent, never some present and others absent; and
\* render_time_series_forecast reads values, dates and model only after
\* finding the values present.
C18_AllOrNothing ==
    /\ ForecastDone =>
          /\ ~ret.raised
          /\ AllPresent(ret) \/ AllAbsent(ret)
          /\ (~fit.ok => AllAbsent(ret))
    /\ RenderDone =>
          /\ ~ret.raised
          /\ AllPresent(ret.forecast) \/ AllAbsent(ret.forecast)
          /\ ret.used # {} => ret.forecast.forecast_values.some
          /\ \A c \in ret.used : ret.forecast[c].some
          /\ (~fit.ok => ret.used = {} /\ ret.shown = "error")

\* a failed fit reaches the caller, which shows the error and reads nothing
C18_Witness ==
    /\ RenderDone
    /\ ~fit.ok
    /\ AllAbsent(ret.forecast)
    /\ ret.used = {}

----------------------------------------------------------------------------
(* Properties of analyze_time_patterns *)

AnalyzeDone == pc = "done" /\ op = "analyze_time_patterns"

\* the table has records and every column the analysis reads
Analyzable == AnalysisColumns \subseteq df.columns /\ Len(df.rows) > 0

\* the number of records of the table whose column name holds value
Records(name, value) ==
    Cardinality({k \in 1..Len(df.rows) : df.rows[k][name] = value})

\* the values of a column that occur in the table
Buckets(name) == {df.rows[k][name] : k \in 1..Len(df.rows)}

\* C19: for every non-empty table the count reported under each weekday
\* name equals the number of records of that weekday, also when some
\* weekdays have no records, and the weekday reported as modal is one whose
\* reported count is the maximum of the reported counts.
C19_WeekdayCounts ==
    (AnalyzeDone /\ Analyzable) =>
        /\ \A d \in 0..6 :
              weekday_names[d + 1] \in DOMAIN ret.weekday_counts
                  => ret.weekday_counts[weekday_names[d + 1]]
                        = Records("DayOfWeek", d)
        /\ ret.most_common_day \in DOMAIN ret.weekday_counts
        /\ \A name \in DOMAIN ret.weekday_counts :
              ret.weekday_counts[name]
                  <= ret.weekday_counts[ret.most_common_day]

\* the ratio a column should get: its fullest bucket over all records
FullestBucket(name) ==
    CHOOSE c \in {Records(name, v) : v \in Buckets(name)} :
        \A v \in Buckets(name) : Records(name, v) <= c

RatioIs(ratio, name) ==
    /\ ratio.num = FullestBucket(name)
    /\ ratio.den = Len(df.rows)
    /\ 0 < ratio.num
    /\ ratio.num <= ratio.den
    /\ ratio.num * Cardinality(Buckets(name)) >= ratio.den

\* C20: each consistency ratio of analyze_time_patterns (weekday, hour,
\* month) is the number of records of the most frequent bucket over the
\* number of records; for a non-empty table it is at least 1/(number of
\* non-empty buckets) and at most 1, and it is 0 only in the default
\* result.
C20_ConsistencyRatios ==
    AnalyzeDone =>
        IF Analyzable
        THEN /\ RatioIs(ret.weekday_consistency, "DayOfWeek")
             /\ RatioIs(ret.hour_consistency, "Hour")
             /\ RatioIs(ret.monthly_consistency, "Month")
        ELSE /\ ret = DefaultPatterns
             /\ ret.weekday_consistency.num = 0
             /\ ret.hour_consistency.num = 0
             /\ ret.monthly_consistency.num = 0

\* the fullest weekday is not the first one and holds less than all records
C20_Witness ==
    /\ AnalyzeDone
    /\ Analyzable
    /\ ret.weekday_consistency.num < ret.weekday_consistency.den
    /\ ret.weekday_consistency.num > Records("DayOfWeek", 0)
    /\ Cardinality(Buckets("Hour")) > 1
    /\ Cardinality(Buckets("Month")) > 1

\* the keys of a result of the analysis
PatternKeys ==
    {"weekday_counts", "most_common_day", "weekday_consistency",
     "hour_counts", "most_common_hour", "hour_consistency",
     "avg_hours_between_servers", "median_hours_between_servers",
     "month_counts", "most_common_month", "monthly_consistency"}

\* C21: analyze_time_patterns never raises: for an empty table or a table
\* lacking a required column it returns a result with the same keys as a
\* successful result, holding the defaults: every weekday and month count
\* 0 and the three consistency ratios 0.
C21_DefaultResult ==
    AnalyzeDone =>
        /\ DOMAIN ret = PatternKeys
        /\ ~Analyzable =>
              /\ DOMAIN ret.weekday_counts = Range(weekday_names)
              /\ \A name \in DOMAIN ret.weekday_counts :
                    ret.weekday_counts[name] = 0
              /\ DOMAIN ret.month_counts = 1..12
              /\ \A m \in DOMAIN ret.month_counts : ret.month_counts[m] = 0
              /\ ret.weekday_consistency.num = 0
              /\ ret.hour_consistency.num = 0
              /\ ret.monthly_consistency.num = 0

\* a table with every column and no record gets the default result
C21_Witness ==
    /\ AnalyzeDone
    /\ AnalysisColumns \subseteq df.columns
    /\ Len(df.rows) = 0
    /\ ret.most_common_hour = 12
    /\ ret.weekday_consistency.num = 0

----------------------------------------------------------------------------
(* Properties of prepare_time_series_data *)

PrepareDone == pc = "done" /\ op = "prepare_time_series_data"
Prepared == PrepareDone /\ ~ret.raised

\* the calendar days of the records
EventDays == {DayNumber(df.rows[k].OpenDateTime) : k \in 1..Len(df.rows)}

\* the series holds every bucket from that of the first to that of the last
\* event once, in increasing order, with the number of events of the bucket
DailyComplete(series) ==
    LET first == CHOOSE d \in EventDays : \A o \in EventDays : d <= o
        last == CHOOSE d \in EventDays : \A o \in EventDays : o <= d
    IN  /\ Len(series) = last - first + 1
        /\ \A k \in 1..Len(series) :
              /\ series[k].Date = first + k - 1
              /\ series[k].Count =
                    Cardinality({j \in 1..Len(df.rows) :
                        DayNumber(df.rows[j].OpenDateTime) = first + k - 1})

MonthlyComplete(series) ==
    LET first == CHOOSE d \in EventDays : \A o \in EventDays : d <= o
        last == CHOOSE d \in EventDays : \A o \in EventDays : o <= d
        starts == {d \in MonthStart(MonthIndex(first))..last :
                      \E m \in 0..23 : MonthStart(m) = d}
    IN  /\ {series[k].Date : k \in 1..Len(series)} = starts
        /\ Len(series) = Cardinality(starts)
        /\ \A k \in 1..(Len(series) - 1) : series[k].Date < series[k + 1].Date
        /\ \A k \in 1..Len(series) :
              series[k].Count =
                  Cardinality({j \in 1..Len(df.rows) :
                      /\ series[k].Date <= DayNumber(df.rows[j].OpenDateTime)
                      /\ \A d \in starts :
                            d > series[k].Date
                                => DayNumber(df.rows[j].OpenDateTime) < d})

CountTotal(series) == Sum([k \in 1..Len(series) |-> series[k].Count])

\* C22: in the daily (monthly) series of prepare_time_series_data every
\* calendar day (month start) from the first to the last event date appears
\* exactly once in increasing order with the number of events of that
\* bucket, 0 where there are none, so the counts sum to the number of
\* records; completing a complete series again yields the same series.
C22_CalendarComplete ==
    Prepared =>
        /\ DailyComplete(ret.daily)
        /\ MonthlyComplete(ret.monthly)
        /\ CountTotal(ret.daily) = Len(df.rows)
        /\ CountTotal(ret.monthly) = Len(df.rows)
        /\ Complete(ret.daily, "D") = ret.daily
        /\ Complete(ret.monthly, "MS") = ret.monthly

\* a daily series with a day of count 0 and a monthly series of several
\* months
C22_Witness ==
    /\ Prepared
    /\ \E k \in 1..Len(ret.daily) : ret.daily[k].Count = 0
    /\ \E k \in 1..Len(ret.daily) : ret.daily[k].Count > 1
    /\ Len(ret.monthly) >= 2

----------------------------------------------------------------------------
(* Properties of perform_seasonal_decomposition and its callers *)

DecomposeDone == pc = "done" /\ op = "perform_seasonal_decomposition"
Decomposed == DecomposeDone /\ ret.some

PageDone ==
    /\ pc = "done"
    /\ op \in {"render_time_series_decomposition", "render_seasonal_analysis"}
PageRendered == PageDone /\ ~ret.raised

\* the number of observations of the series a page decomposes: the calendar
\* months (periods 12 and 3) or days (period 7) from the first to the last
\* record
SeriesLength ==
    LET days == {DayNumber(df.rows[k].OpenDateTime) : k \in 1..Len(df.rows)}
        first == CHOOSE d \in days : \A o \in days : d <= o
        last == CHOOSE d \in days : \A o \in days : o <= d
    IN  IF period = 7 THEN last - first + 1
        ELSE MonthIndex(last) - MonthIndex(first) + 1

\* C23: on both call paths perform_seasonal_decomposition is invoked only
\* when the series has at least 2 * period observations; with fewer the
\* outcome is a report of insufficient data that names the minimum
\* 2 * period, no decomposition is attempted, and the series that is
\* decomposed is the whole series.
C23_EnoughObservations ==
    PageRendered =>
        /\ ret.attempted <=> SeriesLength >= 2 * period
        /\ ret.attempted => ret.observations = SeriesLength
        /\ ~ret.attempted =>
              /\ ret.shown = "warning"
              /\ ret.required = 2 * period
              /\ ~ret.processed

\* six monthly observations for the period 12: the warning asks for 24
C23_Witness ==
    /\ PageRendered
    /\ period = 12
    /\ SeriesLength = 6
    /\ ~ret.attempted
    /\ ret.required = 24

\* the decomposition fails: the library raises, an observation is missing
\* at the start, or the series is shorter than two cycles
DecompositionFails ==
    \/ ~fit.ok
    \/ Len(ts.values) < 2 * period
    \/ (Len(ts.values) > 0 /\ ts.values[1] = NaN)

\* C24: perform_seasonal_decomposition never raises: a failure during
\* interpolation or decomposition yields None instead of the four
\* components, and on that outcome each caller only shows a warning or an
\* error and does nothing more with the components.
C24_AbsentOnFailure ==
    /\ DecomposeDone =>
          /\ DecompositionFails <=> ~ret.some
          /\ ret.some =>
                DOMAIN ret.val = {"trend", "seasonal", "resid", "observed"}
    /\ (PageRendered /\ ret.attempted /\ ~fit.ok) =>
          /\ ret.shown \in {"warning", "error"}
          /\ ~ret.processed

\* a page attempted the decomposition, the library raised, and the page
\* showed its message
C24_Witness ==
    /\ PageRendered
    /\ ret.attempted
    /\ ~fit.ok
    /\ ret.shown = "error"
    /\ ~ret.processed

----------------------------------------------------------------------------
(* Properties of a repeated call *)

Recomputed == pc = "recomputed"

Timeless(r) ==
    [ServerId |-> r.ServerId, Tanggal |-> r.Tanggal, Jam |-> r.Jam,
     DistrictId |-> r.DistrictId, MapType |-> r.MapType]

----------------------------------------------------------------------------
(* Properties of the anchor record and of the order of the predictions *)

\* the open times of the 30 records opened last
LatestTimes(rows) ==
    LET times == {rows[k].OpenDateTime : k \in 1..Len(rows)}
    IN  {t \in times : Cardinality({u \in times : u > t}) < 30}

\* the gaps between neighbours of a set of instants, each paired with the
\* instant that ends it
GapsOf(times) ==
    {<<t, t - (CHOOSE u \in times :
                  u < t /\ \A w \in times : w < t => w <= u)>> :
        t \in {v \in times : \E u \in times : u < v}}

\* the gap at place k (from 0) when the gaps are put in ascending order
GapAt(gaps, k) ==
    LET before(p, q) == p[2] < q[2] \/ (p[2] = q[2] /\ p[1] < q[1])
        g == CHOOSE q \in gaps : Cardinality({p \in gaps : before(p, q)}) = k
    IN  g[2]

\* the middle gap, or the mean of the two middle ones
MiddleGap(gaps) ==
    LET n == Cardinality(gaps)
    IN  IF n % 2 = 1 THEN GapAt(gaps, n \div 2)
        ELSE (GapAt(gaps, n \div 2 - 1) + GapAt(gaps, n \div 2)) \div 2

\* the values of column name that more than half of the records opened at
\* one of the instants share
Dominant(rows, times, name) ==
    LET latest == {k \in 1..Len(rows) : rows[k].OpenDateTime \in times}
    IN  {v \in {rows[k][name] : k \in latest} :
            2 * Cardinality({k \in latest : rows[k][name] = v})
                > Cardinality(latest)}

\* instant t moved to the hours and to the weekdays given (at most one each)
Snapped(t, hours, days) ==
    LET hour == CHOOSE h \in hours : TRUE
        day == CHOOSE d \in days : TRUE
        atHour == t - (t % DayTicks) + hour * HourTicks + (t % Ticks(1))
        shift == (day - DayOfWeekOf(atHour)) % 7
    IN  IF hours = {} THEN t
        ELSE IF days = {} THEN atHour
        ELSE atHour + shift * DayTicks

\* C27: the anchor of predict_next_servers is the record with the highest
\* server_id: its open time and its district are the base of every
\* prediction, also when another record was opened later, while the gap,
\* the hour and the weekday statistics come from the 30 records opened
\* last.
C27_AnchorByServerId ==
    PredictSucceeded =>
        LET anchor == AnchorRecord(df.rows)
            times == LatestTimes(df.rows)
            gap == MiddleGap(GapsOf(times))
            hours == Dominant(df.rows, times, "Hour")
            days == Dominant(df.rows, times, "DayOfWeek")
        IN  \A i \in 1..Len(ret.rows) :
              LET t == Snapped(anchor.OpenDateTime + i * gap, hours, days)
              IN  /\ ret.rows[i].Tanggal = DayNumber(t)
                  /\ ret.rows[i].Jam = <<HourOf(t), MinuteOf(t), SecondOf(t)>>
                  /\ ret.rows[i].DistrictId
                        = anchor.DistrictId + ((i - 1) \div 4)

\* the record with the highest id is not the one opened last, and it is in
\* another district
C27_Witness ==
    /\ PredictSucceeded
    /\ Len(ret.rows) >= 1
    /\ LET anchor == AnchorRecord(df.rows)
       IN  /\ \E k \in 1..Len(df.rows) :
                 /\ df.rows[k].OpenDateTime > anchor.OpenDateTime
                 /\ df.rows[k].DistrictId # anchor.DistrictId
           /\ ret.rows[1].DistrictId = anchor.DistrictId

\* the instant a predicted row shows in Tanggal and Jam
ShownTime(r) ==
    r.Tanggal * DayTicks + r.Jam[1] * HourTicks + r.Jam[2] * Ticks(60)
        + Ticks(r.Jam[3])

\* C30: when predict_next_servers succeeds for two servers or more, the
\* predicted open times grow strictly with ServerId and are all later than
\* the open time of the last known record, with hour snapping and weekday
\* snapping included.
C30_StrictlyLater ==
    (PredictSucceeded /\ num_servers >= 2) =>
        /\ \A i, j \in 1..Len(ret.rows) :
              ret.rows[i].ServerId < ret.rows[j].ServerId
                  => ShownTime(ret.rows[i]) < ShownTime(ret.rows[j])
        /\ \A i \in 1..Len(ret.rows) :
              ShownTime(ret.rows[i]) > AnchorRecord(df.rows).OpenDateTime

----------------------------------------------------------------------------
(* Properties of the notification check and of the bot *)

\* C28: whatever the reruns of a session, notify_new_server is invoked at
\* most once for a predicted ServerId, also when two or more predicted
\* servers are inside the window of 24 to 28 hours at the same time and
\* the check is repeated while they are.
C28_NotifiedOnce ==
    (pc = "session") =>
        \A i, j \in 1..Len(notified) : notified[i] = notified[j] => i = j

\* C29: a user who subscribed and then unsubscribed subscribes again with
\* success whenever the next /subscribe comes, within 24 hours of the first
\* subscription included: the reply is the success reply and the user is in
\* the subscriber list.  Commands whose write of the subscriber file failed
\* are left aside.
C29_Resubscribe ==
    (pc = "bot") =>
        \A i, j, k \in 1..Len(replies) :
            (/\ i < j /\ j < k
             /\ replies[i].user = replies[k].user
             /\ replies[j].user = replies[k].user
             /\ replies[i].command = "subscribe"
             /\ replies[i].reply = "Berhasil berlangganan"
             /\ replies[j].command = "unsubscribe"
             /\ replies[j].reply = "Anda telah berhenti"
             /\ replies[k].command = "subscribe"
             /\ \A m \in 1..Len(replies) : replies[m].saved
             /\ \A m \in (j + 1)..(k - 1) :
                   replies[m].user = replies[k].user
                       => replies[m].command = "status")
            => /\ replies[k].reply = "Berhasil berlangganan"
               /\ k = Len(replies)
                     => IsSubscribed(subscribers, replies[k].user)

====
